---- MODULE Spec2Model ----
(***************************************************************************)
(* Phase-graph execution engine of Knowledge Forge (server/agents).        *)
(*                                                                         *)
(* Spec      the engine loop (BaseForgeAgent.process_message) driving the  *)
(*           Research, Understand and Build agents, with the tool handlers *)
(*           that mutate the phase context and the persistence round trip  *)
(*           through the session (agents/factory.py).                      *)
(* SpecEval  the transition evaluator (_evaluate_transitions) applied to   *)
(*           transition tables, condition valuations and latch values      *)
(*           drawn from bounded sets.                                      *)
(***************************************************************************)
EXTENDS Integers, Sequences, FiniteSets, TLC

VARIABLES
    mode,               \* session.mode: which agent class create_agent builds
    has_handler,        \* whether a checkpoint_handler was passed to the agent
    pc,                 \* created / idle / loop / exec / done
    current_phase,      \* BaseForgeAgent.current_phase (enum member name)
    phase_context,      \* BaseForgeAgent.phase_context
    transition_reason,  \* BaseForgeAgent._transition_reason
    events,             \* events yielded by the current process_message call
    executed,           \* phases whose executor ran in the current call
    turn_start,         \* phase / visits / history length when the call began
    counters,           \* session.agent_state.counters
    clock,              \* source of datetime.now(timezone.utc)
    checkpoint,         \* checkpoint raised by the last finished phase execution
    first_prompt,       \* phase value -> prompt selected when the phase first ran
    journey_brief,      \* BaseForgeAgent.journey_brief
    ev_table,           \* SpecEval: transition table under evaluation
    ev_true,            \* SpecEval: condition names that evaluate to true
    ev_awaiting,        \* SpecEval: phase_context.awaiting_user_input
    ev_result,          \* SpecEval: outcome of _evaluate_transitions
    em_pc,              \* SpecEmit: position of the turn (exec / evaluate / ended)
    em_produced,        \* SpecEmit: events of the turn in the order of production
    em_queue,           \* SpecEmit: SSEEventEmitter._queue
    em_delivered,       \* SpecEmit: events passed to stream_manager.emit
    ch_pc,              \* SpecChat: position of each process_chat_message task
    ch_session,         \* SpecChat: turns held by the Session object of each task
    ch_store,           \* SpecChat: turns held by the stored session
    ch_exists,          \* SpecChat: the session file exists
    ch_deleted,         \* SpecChat: delete_session has reported deleted = true
    pm_session,         \* SpecPhase: mode, phase and grounding fields of a Session
    pm_result,          \* SpecPhase: the last PhaseTransitionResult, with the call's force
    pm_events,          \* SpecPhase: events the PhaseManager emitted
    tl_results          \* SpecTools: tool calls of the executor and their results

agent_vars == <<mode, has_handler, pc, current_phase, phase_context,
                transition_reason, events, executed, turn_start, counters, clock,
                checkpoint, first_prompt, journey_brief>>
chat_vars == <<ch_pc, ch_session, ch_store, ch_exists, ch_deleted>>
tool_vars == <<tl_results>>
pm_vars == <<pm_session, pm_result, pm_events>>
engine_vars == <<agent_vars, chat_vars, tool_vars, pm_vars>>
ev_vars == <<ev_table, ev_true, ev_awaiting, ev_result>>
emit_vars == <<em_pc, em_produced, em_queue, em_delivered>>
eval_vars == <<ev_vars, emit_vars, chat_vars, tool_vars, pm_vars>>
vars == <<mode, has_handler, pc, current_phase, phase_context,
          transition_reason, events, executed, turn_start, counters, clock,
          checkpoint, first_prompt, journey_brief,
          ev_table, ev_true, ev_awaiting, ev_result,
          em_pc, em_produced, em_queue, em_delivered,
          ch_pc, ch_session, ch_store, ch_exists, ch_deleted, tl_results,
          pm_session, pm_result, pm_events>>

(***************************************************************************)
(* Bounds                                                                  *)
(***************************************************************************)
MaxHistory == 6      \* transitions recorded in one session
MaxQuestions == 1    \* research questions emitted in one session
MaxSlos == 1         \* learning objectives emitted in one session
MaxTable == 2        \* SpecEval: entries of the transition table
MaxPriority == 1     \* SpecEval: largest declared priority
MaxEvents == 4       \* SpecEmit: events produced in one turn
MaxTurns == 3        \* SpecChat: chat messages sent to one session
MaxCalls == 2        \* SpecTools: tool calls in one phase execution
MaxRounds == 8       \* SpecMastery: diagnostic rounds recorded for one SLO
MaxSelected == 2     \* SpecSlo: SLOs emitted, and ids selected, in one session
MaxLoggedCalls == 3  \* SpecSlo, SpecScaffold: tool calls logged in one run
MaxConcepts == 2     \* SpecPhase: grounding concepts added to one session
MaxTransitions == 2  \* SpecPhase: phase.changed events emitted by the PhaseManager

(***************************************************************************)
(* Python values                                                           *)
(***************************************************************************)
None == "None"

EmptyDict == <<>>

DictGet(d, k, default) == IF k \in DOMAIN d THEN d[k] ELSE default

DictSet(d, k, v) == [x \in (DOMAIN d) \cup {k} |-> IF x = k THEN v ELSE d[x]]

Last(s) == s[Len(s)]

\* datetime.now(timezone.utc): whole seconds and microseconds
utcnow(c) == [sec |-> c \div 2, usec |-> (c % 2) * 500000]

\* variant: isoformat(timespec="seconds"), which never writes the fraction
isoformat_seconds(ts) == [date_time |-> ts.sec, tz |-> "+00:00"]

\* datetime.isoformat(): the fraction is written only when it is not zero
isoformat(ts) ==
    IF ts.usec = 0
    THEN [date_time |-> ts.sec, tz |-> "+00:00"]
    ELSE [date_time |-> ts.sec, fraction |-> ts.usec, tz |-> "+00:00"]

\* datetime.fromisoformat(): a missing fraction reads as zero microseconds
fromisoformat(s) ==
    [sec |-> s.date_time, usec |-> DictGet(s, "fraction", 0)]

(***************************************************************************)
(* Phase graphs                                                            *)
(***************************************************************************)
PhaseTransition(from, to, cond, back, prio) ==
    [from_phase |-> from, to_phase |-> to, condition |-> cond,
     is_backward |-> back, priority |-> prio]

ResearchPhase ==
    [DECOMPOSE |-> "decompose", ANSWER |-> "answer", RISE_ABOVE |-> "rise_above",
     EXPAND |-> "expand", COMPLETE |-> "complete"]

RESEARCH_TRANSITIONS == <<
    PhaseTransition("DECOMPOSE", "ANSWER", "question_tree_approved", FALSE, 0),
    PhaseTransition("ANSWER", "RISE_ABOVE", "high_priority_questions_answered", FALSE, 0),
    PhaseTransition("RISE_ABOVE", "EXPAND", "category_insights_generated", FALSE, 0),
    PhaseTransition("EXPAND", "COMPLETE", "frontier_populated", FALSE, 0),
    PhaseTransition("ANSWER", "DECOMPOSE", "new_category_discovered", TRUE, 10),
    PhaseTransition("RISE_ABOVE", "ANSWER", "synthesis_requires_more_answers", TRUE, 10),
    PhaseTransition("RISE_ABOVE", "DECOMPOSE", "synthesis_reveals_missing_category", TRUE, 5) >>

UnderstandPhase ==
    [SELF_ASSESS |-> "self_assess", CONFIGURE |-> "configure", CLASSIFY |-> "classify",
     CALIBRATE |-> "calibrate", DIAGNOSE |-> "diagnose", SLO_COMPLETE |-> "slo_complete",
     COMPLETE |-> "complete"]

UNDERSTAND_TRANSITIONS == <<
    PhaseTransition("SELF_ASSESS", "CONFIGURE", "knowledge_confidence_established", FALSE, 0),
    PhaseTransition("CONFIGURE", "CLASSIFY", "session_preferences_set", FALSE, 0),
    PhaseTransition("CLASSIFY", "CALIBRATE", "slos_selected", FALSE, 0),
    PhaseTransition("CALIBRATE", "DIAGNOSE", "calibration_complete", FALSE, 0),
    PhaseTransition("DIAGNOSE", "SLO_COMPLETE", "mastery_criteria_met", FALSE, 0),
    PhaseTransition("SLO_COMPLETE", "CALIBRATE", "next_slo_available", TRUE, 0),
    PhaseTransition("SLO_COMPLETE", "COMPLETE", "all_slos_complete", FALSE, 0),
    PhaseTransition("DIAGNOSE", "CALIBRATE", "slo_skipped_needs_recalibration", TRUE, 0) >>

BuildPhase ==
    [ANCHOR_DISCOVERY |-> "anchor_discovery", CLASSIFY |-> "classify",
     SEQUENCE_DESIGN |-> "sequence_design", CONSTRUCTION |-> "construction",
     SLO_COMPLETE |-> "slo_complete", CONSOLIDATION |-> "consolidation",
     COMPLETE |-> "complete"]

BUILD_TRANSITIONS == <<
    PhaseTransition("ANCHOR_DISCOVERY", "CLASSIFY", "anchors_confirmed", FALSE, 0),
    PhaseTransition("CLASSIFY", "SEQUENCE_DESIGN", "slos_selected", FALSE, 0),
    PhaseTransition("SEQUENCE_DESIGN", "CONSTRUCTION", "sequence_designed", FALSE, 0),
    PhaseTransition("CONSTRUCTION", "SLO_COMPLETE", "construction_verified", FALSE, 0),
    PhaseTransition("SLO_COMPLETE", "CONSTRUCTION", "next_slo_available", TRUE, 0),
    PhaseTransition("SLO_COMPLETE", "CONSOLIDATION", "all_slos_complete", FALSE, 0),
    PhaseTransition("CONSOLIDATION", "COMPLETE", "consolidation_complete", FALSE, 0),
    PhaseTransition("CONSTRUCTION", "ANCHOR_DISCOVERY", "anchor_gap_detected", TRUE, 0) >>

Modes == {"research", "understand", "build"}

\* BaseForgeAgent.Phase of the agent class built for a mode
Phase(m) ==
    CASE m = "research" -> ResearchPhase
      [] m = "understand" -> UnderstandPhase
      [] m = "build" -> BuildPhase

\* variant: the declarations that enter the COMPLETE phase are left out
phase_transitions_no_exit(m) ==
    LET table == CASE m = "research" -> RESEARCH_TRANSITIONS
                   [] m = "understand" -> UNDERSTAND_TRANSITIONS
                   [] m = "build" -> BUILD_TRANSITIONS
    IN SelectSeq(table, LAMBDA t : t.to_phase # "COMPLETE")

\* phase_transitions of the three agent classes
phase_transitions(m) ==
    CASE m = "research" -> RESEARCH_TRANSITIONS
      [] m = "understand" -> UNDERSTAND_TRANSITIONS
      [] m = "build" -> BUILD_TRANSITIONS

initial_phase(m) ==
    CASE m = "research" -> "DECOMPOSE"
      [] m = "understand" -> "SELF_ASSESS"
      [] m = "build" -> "ANCHOR_DISCOVERY"

\* variant: an agent class whose complete_phase names no phase
complete_phase_none(m) == None

\* complete_phase of the three agent classes
complete_phase(m) == "COMPLETE"

\* Enum.value
value(m, p) == Phase(m)[p]

\* variant: an unknown value is defaulted to the initial phase
PhaseByValue_default(m, v) ==
    IF \E p \in DOMAIN Phase(m) : Phase(m)[p] = v
    THEN CHOOSE p \in DOMAIN Phase(m) : Phase(m)[p] = v
    ELSE initial_phase(m)

\* Enum lookup by value, self.Phase(state["current_phase"]); ValueError when absent
PhaseByValue(m, v) ==
    IF \E p \in DOMAIN Phase(m) : Phase(m)[p] = v
    THEN CHOOSE p \in DOMAIN Phase(m) : Phase(m)[p] = v
    ELSE "ValueError"

(***************************************************************************)
(* Transition evaluator                                                    *)
(***************************************************************************)
int(b) == IF b THEN 1 ELSE 0

\* variant: a sort key that puts the declared priority before is_backward
SortKey_priority_first(t) == << -t.priority, -int(t.is_backward) >>

\* key=lambda t: (-int(t.is_backward), -t.priority)
SortKey(t) == << -int(t.is_backward), -t.priority >>

\* variant: a comparison that looks at the is_backward component only
KeyLess_backward_only(k1, k2) == k1[1] < k2[1]

\* tuple comparison k1 < k2
KeyLess(k1, k2) == k1[1] < k2[1] \/ (k1[1] = k2[1] /\ k1[2] < k2[2])

RECURSIVE InsertSorted(_, _)
InsertSorted(s, x) ==
    IF s = <<>> THEN <<x>>
    ELSE IF KeyLess(SortKey(x), SortKey(Head(s))) THEN <<x>> \o s
    ELSE <<Head(s)>> \o InsertSorted(Tail(s), x)

\* sorted(current_transitions, key=...): Python's sort is stable
RECURSIVE sorted(_)
sorted(s) ==
    IF s = <<>> THEN <<>>
    ELSE InsertSorted(sorted(SubSeq(s, 1, Len(s) - 1)), s[Len(s)])

\* variant: no filter on from_phase
current_transitions_unfiltered(table, current) == table

\* [t for t in self.phase_transitions if t.from_phase == self.current_phase]
current_transitions(table, current) == SelectSeq(table, LAMBDA t : t.from_phase = current)

\* variant: an evaluator that consults the latch only after scanning the
\* transitions, so that the reason is set although the phase is kept
evaluate_transitions_latch_after(table, current, awaiting, holds, reason) ==
    LET st == sorted(current_transitions(table, current))
        hits == {i \in 1..Len(st) : st[i].condition \in holds}
    IN IF hits = {}
       THEN [next_phase |-> current, reason |-> reason]
       ELSE LET first == CHOOSE i \in hits : \A j \in hits : i <= j
            IN [next_phase |-> IF awaiting THEN current ELSE st[first].to_phase,
                reason |-> st[first].condition]

\* BaseForgeAgent._evaluate_transitions; holds is the set of condition names for
\* which _evaluate_transition_condition returns True; reason is the value of
\* _transition_reason before the call. Yields the returned phase and the value
\* of _transition_reason after the call.
evaluate_transitions(table, current, awaiting, holds, reason) ==
    IF awaiting
    THEN [next_phase |-> current, reason |-> reason]
    ELSE LET st == sorted(current_transitions(table, current))
             hits == {i \in 1..Len(st) : st[i].condition \in holds}
         IN IF hits = {}
            THEN [next_phase |-> current, reason |-> reason]
            ELSE LET first == CHOOSE i \in hits : \A j \in hits : i <= j
                 IN [next_phase |-> st[first].to_phase, reason |-> st[first].condition]

\* variant: a lookup that reports every transition as forward
is_backward_transition_never(table, from, to) == FALSE

\* BaseForgeAgent._is_backward_transition
is_backward_transition(table, from, to) ==
    LET hits == {i \in 1..Len(table) : table[i].from_phase = from /\ table[i].to_phase = to}
    IN IF hits = {} THEN FALSE
       ELSE table[CHOOSE i \in hits : \A j \in hits : i <= j].is_backward

(***************************************************************************)
(* Phase contexts                                                          *)
(***************************************************************************)
\* list(a_set): some enumeration of the set
RECURSIVE list(_)
list(S) == IF S = {} THEN <<>> ELSE LET x == CHOOSE x \in S : TRUE IN <<x>> \o list(S \ {x})

\* set(a_list)
set(s) == {s[i] : i \in DOMAIN s}

\* BasePhaseContext.get_visit_count
get_visit_count(ctx, m, p) == DictGet(ctx.phase_visits, value(m, p), 0)

\* variant: the count is set to 1 instead of incremented
increment_visit_set_one(ctx, m, p) ==
    [ctx EXCEPT !.phase_visits = DictSet(ctx.phase_visits, value(m, p), 1)]

\* BasePhaseContext.increment_visit
increment_visit(ctx, m, p) ==
    [ctx EXCEPT !.phase_visits =
        DictSet(ctx.phase_visits, value(m, p), DictGet(ctx.phase_visits, value(m, p), 0) + 1)]

\* TransitionRecord(...) with the default timestamp factory
TransitionRecord(from, to, reason, back, now) ==
    [from_phase |-> from, to_phase |-> to, reason |-> reason,
     is_backward |-> back, timestamp |-> now]

\* variant: the record names the phase left as the phase entered
record_transition_swapped(ctx, m, from, to, reason, back, now) ==
    LET rec == TransitionRecord(value(m, to), value(m, from), reason, back, now)
        c1 == [ctx EXCEPT !.transition_history = Append(ctx.transition_history, rec)]
    IN IF back
       THEN [c1 EXCEPT !.backward_trigger = reason]
       ELSE [c1 EXCEPT !.backward_trigger = None, !.backward_trigger_detail = None]

\* BasePhaseContext.record_transition
record_transition(ctx, m, from, to, reason, back, now) ==
    LET rec == TransitionRecord(value(m, from), value(m, to), reason, back, now)
        c1 == [ctx EXCEPT !.transition_history = Append(ctx.transition_history, rec)]
    IN IF back
       THEN [c1 EXCEPT !.backward_trigger = reason]
       ELSE [c1 EXCEPT !.backward_trigger = None, !.backward_trigger_detail = None]

\* ResearchPhaseContext(): the fields read by transitions, tools and persistence
ResearchPhaseContext ==
    [phase_visits |-> EmptyDict, transition_history |-> <<>>,
     backward_trigger |-> None, backward_trigger_detail |-> None,
     awaiting_user_input |-> FALSE,
     questions |-> <<>>, question_tree_approved |-> FALSE,
     answered_question_ids |-> {}, skipped_question_ids |-> {},
     high_priority_complete |-> FALSE, insights_complete |-> FALSE,
     frontier_populated |-> FALSE,
     new_category_pending |-> None, unanswered_for_synthesis |-> <<>>]

\* ResearchPhaseContext.get_unanswered_questions
get_unanswered_questions(ctx) ==
    SelectSeq(ctx.questions,
              LAMBDA q : q \notin ctx.answered_question_ids /\ q \notin ctx.skipped_question_ids)

\* ResearchPhaseContext.to_dict
ResearchToDict(ctx) ==
    [phase_visits |-> ctx.phase_visits,
     backward_trigger |-> ctx.backward_trigger,
     backward_trigger_detail |-> ctx.backward_trigger_detail,
     questions |-> [i \in DOMAIN ctx.questions |-> [id |-> ctx.questions[i]]],
     question_tree_approved |-> ctx.question_tree_approved,
     answered_question_ids |-> list(ctx.answered_question_ids),
     skipped_question_ids |-> list(ctx.skipped_question_ids),
     high_priority_complete |-> ctx.high_priority_complete,
     insights_complete |-> ctx.insights_complete,
     frontier_populated |-> ctx.frontier_populated]

\* ResearchPhaseContext.from_dict
ResearchFromDict(data) ==
    LET qs == DictGet(data, "questions", <<>>)
    IN [ResearchPhaseContext EXCEPT
        !.phase_visits = DictGet(data, "phase_visits", EmptyDict),
        !.backward_trigger = DictGet(data, "backward_trigger", None),
        !.backward_trigger_detail = DictGet(data, "backward_trigger_detail", None),
        !.questions = [i \in DOMAIN qs |-> qs[i].id],
        !.question_tree_approved = DictGet(data, "question_tree_approved", FALSE),
        !.answered_question_ids = set(DictGet(data, "answered_question_ids", <<>>)),
        !.skipped_question_ids = set(DictGet(data, "skipped_question_ids", <<>>)),
        !.high_priority_complete = DictGet(data, "high_priority_complete", FALSE),
        !.insights_complete = DictGet(data, "insights_complete", FALSE),
        !.frontier_populated = DictGet(data, "frontier_populated", FALSE)]

\* variant: synthesis_reveals_missing_category holds whenever it is asked
ResearchCondition_missing_category(ctx, condition) ==
    CASE condition = "question_tree_approved" -> ctx.question_tree_approved
      [] condition = "high_priority_questions_answered" -> ctx.high_priority_complete
      [] condition = "category_insights_generated" -> ctx.insights_complete
      [] condition = "frontier_populated" -> ctx.frontier_populated
      [] condition = "new_category_discovered" -> ctx.new_category_pending # None
      [] condition = "synthesis_requires_more_answers" -> Len(ctx.unanswered_for_synthesis) > 0
      [] condition = "synthesis_reveals_missing_category" -> TRUE
      [] OTHER -> FALSE

\* ResearchAgent._evaluate_transition_condition
ResearchCondition(ctx, condition) ==
    CASE condition = "question_tree_approved" -> ctx.question_tree_approved
      [] condition = "high_priority_questions_answered" -> ctx.high_priority_complete
      [] condition = "category_insights_generated" -> ctx.insights_complete
      [] condition = "frontier_populated" -> ctx.frontier_populated
      [] condition = "new_category_discovered" -> ctx.new_category_pending # None
      [] condition = "synthesis_requires_more_answers" -> Len(ctx.unanswered_for_synthesis) > 0
      [] condition = "synthesis_reveals_missing_category" -> FALSE
      [] OTHER -> FALSE

\* ResearchAgent._get_allowed_tools (the tools that change the context)
ResearchAllowedTools(phase) ==
    CASE phase = "DECOMPOSE" -> {"emit_question"}
      [] phase = "ANSWER" -> {"emit_answer", "skip_question", "flag_new_category",
                              "mark_answer_phase_complete"}
      [] phase = "RISE_ABOVE" -> {"flag_unanswered_needed", "mark_synthesis_complete"}
      [] phase = "EXPAND" -> {"mark_expand_complete"}
      [] OTHER -> {}

\* the id given to the i-th emitted SLO
SloId(i) == <<"slo-1", "slo-2", "slo-3", "slo-4">>[i]

\* sequences over S of length at most n
BoundedSeq(S, n) == UNION {[1..k -> S] : k \in 0..n}

\* "x in a_list"
InList(x, s) == \E i \in DOMAIN s : s[i] = x

\* get_current_slo of UnderstandPhaseContext and BuildPhaseContext: the id of the
\* active SLO, or None (current_slo_index counts from 0)
get_current_slo(ctx) ==
    IF Len(ctx.selected_slo_ids) = 0 THEN None
    ELSE IF ctx.current_slo_index >= Len(ctx.selected_slo_ids) THEN None
    ELSE LET slo_id == ctx.selected_slo_ids[ctx.current_slo_index + 1]
         IN IF InList(slo_id, ctx.slos) THEN slo_id ELSE None

\* variant: has_next_slo that does not subtract the skipped SLOs
has_next_slo_ignores_skipped(ctx) ==
    set(ctx.selected_slo_ids) \ set(ctx.completed_slo_ids) # {}

\* has_next_slo of UnderstandPhaseContext and BuildPhaseContext
has_next_slo(ctx) ==
    (set(ctx.selected_slo_ids) \ set(ctx.completed_slo_ids)) \ set(ctx.skipped_slo_ids) # {}

\* the first index (from 0) of a selected SLO neither completed nor skipped, or -1
NextOpenIndex(ctx, completed) ==
    LET open == {i \in DOMAIN ctx.selected_slo_ids :
                    /\ ~InList(ctx.selected_slo_ids[i], completed)
                    /\ ~InList(ctx.selected_slo_ids[i], ctx.skipped_slo_ids)}
    IN IF open = {} THEN -1 ELSE (CHOOSE i \in open : \A j \in open : i <= j) - 1

CoreFacets == {"vocabulary", "mental_model", "practical_grasp", "boundary_conditions"}

Facets == CoreFacets \cup {"transfer"}

MinTotalRounds == 7
MinFacetRounds == 2
MinConsecutivePasses == 3
MinTransferPasses == 2

\* UnderstandPhaseContext(): the fields read by transitions, tools and persistence
UnderstandPhaseContext ==
    [phase_visits |-> EmptyDict, transition_history |-> <<>>,
     backward_trigger |-> None, backward_trigger_detail |-> None,
     awaiting_user_input |-> FALSE,
     knowledge_confidence |-> "MEDIUM",
     config_questions_asked |-> FALSE, session_configured |-> FALSE,
     slos |-> <<>>, selected_slo_ids |-> <<>>,
     slos_presented |-> FALSE, slos_confirmed |-> FALSE,
     current_slo_index |-> 0, current_slo_calibrated |-> FALSE,
     slo_counters |-> EmptyDict, knowledge_states |-> EmptyDict,
     completed_slo_ids |-> <<>>, skipped_slo_ids |-> <<>>]

\* UnderstandPhaseContext.add_slo
U_add_slo(ctx, slo_id) ==
    [ctx EXCEPT
        !.slos = Append(@, slo_id),
        !.slo_counters = DictSet(@, slo_id,
            [total_rounds |-> 0, consecutive_passes |-> 0, transfer_passes |-> 0,
             facet_rounds |-> [f \in Facets |-> 0]]),
        !.knowledge_states = DictSet(@, slo_id,
            [f \in Facets |-> [facet |-> f, status |-> "not_tested"]])]

\* UnderstandPhaseContext.get_current_counters
get_current_counters(ctx) ==
    IF get_current_slo(ctx) # None
    THEN DictGet(ctx.slo_counters, get_current_slo(ctx), None) ELSE None

\* UnderstandPhaseContext.get_current_knowledge_state
get_current_knowledge_state(ctx) ==
    IF get_current_slo(ctx) # None
    THEN DictGet(ctx.knowledge_states, get_current_slo(ctx), None) ELSE None

\* UnderstandPhaseContext.update_facet_status
U_update_facet_status(ctx, facet, status) ==
    IF get_current_slo(ctx) # None /\ get_current_slo(ctx) \in DOMAIN ctx.knowledge_states
       /\ facet \in DOMAIN ctx.knowledge_states[get_current_slo(ctx)]
    THEN [ctx EXCEPT !.knowledge_states[get_current_slo(ctx)][facet].status = status]
    ELSE ctx

\* UnderstandPhaseContext.increment_round, then record_pass or record_fail
U_record_round(ctx, facet, passed, is_transfer) ==
    IF get_current_slo(ctx) # None /\ get_current_slo(ctx) \in DOMAIN ctx.slo_counters
    THEN LET id == get_current_slo(ctx)
             c0 == ctx.slo_counters[id]
             c1 == [c0 EXCEPT !.total_rounds = @ + 1,
                              !.facet_rounds = DictSet(c0.facet_rounds, facet,
                                    DictGet(c0.facet_rounds, facet, 0) + 1)]
             c2 == IF passed
                   THEN [c1 EXCEPT !.consecutive_passes = @ + 1,
                                   !.transfer_passes = IF is_transfer THEN @ + 1 ELSE @]
                   ELSE [c1 EXCEPT !.consecutive_passes = 0]
         IN [ctx EXCEPT !.slo_counters[id] = c2]
    ELSE ctx

\* variant: is_mastery_criteria_met without the test of the transfer passes
is_mastery_criteria_met_no_transfer(ctx) ==
    LET c == get_current_counters(ctx)
        st == get_current_knowledge_state(ctx)
    IN IF get_current_slo(ctx) = None
          \/ get_current_slo(ctx) \notin DOMAIN ctx.slo_counters
          \/ get_current_slo(ctx) \notin DOMAIN ctx.knowledge_states
       THEN FALSE
       ELSE /\ c.total_rounds >= MinTotalRounds
            /\ \A f \in CoreFacets : DictGet(c.facet_rounds, f, 0) >= MinFacetRounds
            /\ c.consecutive_passes >= MinConsecutivePasses
            /\ \A f \in DOMAIN st : st[f].status # "missing"

\* UnderstandPhaseContext.is_mastery_criteria_met
is_mastery_criteria_met(ctx) ==
    LET c == get_current_counters(ctx)
        st == get_current_knowledge_state(ctx)
    IN IF get_current_slo(ctx) = None
          \/ get_current_slo(ctx) \notin DOMAIN ctx.slo_counters
          \/ get_current_slo(ctx) \notin DOMAIN ctx.knowledge_states
       THEN FALSE
       ELSE /\ c.total_rounds >= MinTotalRounds
            /\ \A f \in CoreFacets : DictGet(c.facet_rounds, f, 0) >= MinFacetRounds
            /\ c.consecutive_passes >= MinConsecutivePasses
            /\ c.transfer_passes >= MinTransferPasses
            /\ \A f \in DOMAIN st : st[f].status # "missing"

\* variant: advance_to_next_slo that appends the current SLO without looking
\* whether it is already completed
U_advance_to_next_slo_always_appends(ctx) ==
    LET current == get_current_slo(ctx)
        completed == IF current # None
                     THEN Append(ctx.completed_slo_ids, current)
                     ELSE ctx.completed_slo_ids
        i == NextOpenIndex(ctx, completed)
    IN IF i >= 0
       THEN [ctx EXCEPT !.completed_slo_ids = completed,
                        !.current_slo_index = i, !.current_slo_calibrated = FALSE]
       ELSE [ctx EXCEPT !.completed_slo_ids = completed]

\* UnderstandPhaseContext.advance_to_next_slo
U_advance_to_next_slo(ctx) ==
    LET current == get_current_slo(ctx)
        completed == IF current # None /\ ~InList(current, ctx.completed_slo_ids)
                     THEN Append(ctx.completed_slo_ids, current)
                     ELSE ctx.completed_slo_ids
        i == NextOpenIndex(ctx, completed)
    IN IF i >= 0
       THEN [ctx EXCEPT !.completed_slo_ids = completed,
                        !.current_slo_index = i, !.current_slo_calibrated = FALSE]
       ELSE [ctx EXCEPT !.completed_slo_ids = completed]

\* UnderstandPhaseContext.skip_current_slo
U_skip_current_slo(ctx) ==
    IF get_current_slo(ctx) # None
    THEN [ctx EXCEPT !.skipped_slo_ids = Append(@, get_current_slo(ctx))]
    ELSE ctx

\* UnderstandPhaseContext.to_dict
UnderstandToDict(ctx) ==
    [phase_visits |-> ctx.phase_visits,
     backward_trigger |-> ctx.backward_trigger,
     backward_trigger_detail |-> ctx.backward_trigger_detail,
     knowledge_confidence |-> ctx.knowledge_confidence,
     config_questions_asked |-> ctx.config_questions_asked,
     session_configured |-> ctx.session_configured,
     slos |-> [i \in DOMAIN ctx.slos |-> [id |-> ctx.slos[i]]],
     selected_slo_ids |-> ctx.selected_slo_ids,
     slos_presented |-> ctx.slos_presented,
     slos_confirmed |-> ctx.slos_confirmed,
     current_slo_index |-> ctx.current_slo_index,
     current_slo_calibrated |-> ctx.current_slo_calibrated,
     slo_counters |-> ctx.slo_counters,
     knowledge_states |-> ctx.knowledge_states,
     completed_slo_ids |-> ctx.completed_slo_ids,
     skipped_slo_ids |-> ctx.skipped_slo_ids]

\* UnderstandPhaseContext.from_dict
UnderstandFromDict(data) ==
    LET ss == DictGet(data, "slos", <<>>)
    IN [UnderstandPhaseContext EXCEPT
        !.phase_visits = DictGet(data, "phase_visits", EmptyDict),
        !.backward_trigger = DictGet(data, "backward_trigger", None),
        !.backward_trigger_detail = DictGet(data, "backward_trigger_detail", None),
        !.knowledge_confidence = DictGet(data, "knowledge_confidence", "MEDIUM"),
        !.config_questions_asked = DictGet(data, "config_questions_asked", FALSE),
        !.session_configured = DictGet(data, "session_configured", FALSE),
        !.slos = [i \in DOMAIN ss |-> ss[i].id],
        !.selected_slo_ids = DictGet(data, "selected_slo_ids", <<>>),
        !.slos_presented = DictGet(data, "slos_presented", FALSE),
        !.slos_confirmed = DictGet(data, "slos_confirmed", FALSE),
        !.current_slo_index = DictGet(data, "current_slo_index", 0),
        !.current_slo_calibrated = DictGet(data, "current_slo_calibrated", FALSE),
        !.slo_counters = DictGet(data, "slo_counters", EmptyDict),
        !.knowledge_states = DictGet(data, "knowledge_states", EmptyDict),
        !.completed_slo_ids = DictGet(data, "completed_slo_ids", <<>>),
        !.skipped_slo_ids = DictGet(data, "skipped_slo_ids", <<>>)]

\* UnderstandAgent._evaluate_transition_condition
UnderstandCondition(ctx, condition) ==
    CASE condition = "knowledge_confidence_established" ->
            ctx.knowledge_confidence \in {"HIGH", "MEDIUM"}
      [] condition = "session_preferences_set" -> ctx.session_configured
      [] condition = "slos_selected" -> ctx.slos_confirmed /\ Len(ctx.selected_slo_ids) > 0
      [] condition = "calibration_complete" -> ctx.current_slo_calibrated
      [] condition = "mastery_criteria_met" -> is_mastery_criteria_met(ctx)
      [] condition = "next_slo_available" -> has_next_slo(ctx)
      [] condition = "all_slos_complete" -> ~has_next_slo(ctx)
      [] condition = "slo_skipped_needs_recalibration" -> FALSE
      [] OTHER -> FALSE

\* UnderstandAgent._get_allowed_tools (the tools that change the context)
UnderstandAllowedTools(phase) ==
    CASE phase = "SELF_ASSESS" -> {"emit_knowledge_confidence"}
      [] phase = "CONFIGURE" -> {"emit_session_config", "mark_config_questions_asked"}
      [] phase = "CLASSIFY" -> {"emit_slo", "mark_slos_presented", "mark_slos_selected"}
      [] phase = "CALIBRATE" -> {"mark_probe_question_asked", "update_facet_status",
                                 "mark_calibration_complete"}
      [] phase = "DIAGNOSE" -> {"mark_diagnostic_question_asked", "update_facet_status",
                                "record_diagnostic_result"}
      [] phase = "SLO_COMPLETE" -> {"advance_to_next_slo", "skip_current_slo"}
      [] OTHER -> {}

\* BuildPhaseContext(): the fields read by transitions, tools and persistence
BuildPhaseContext ==
    [phase_visits |-> EmptyDict, transition_history |-> <<>>,
     backward_trigger |-> None, backward_trigger_detail |-> None,
     awaiting_user_input |-> FALSE,
     anchor_questions_asked |-> FALSE, anchors_confirmed |-> FALSE,
     slos |-> <<>>, selected_slo_ids |-> <<>>,
     slos_presented |-> FALSE, slos_confirmed |-> FALSE,
     sequences_designed |-> FALSE,
     current_slo_index |-> 0,
     current_scaffold_level |-> "medium", current_mode |-> "normal",
     construction_rounds |-> EmptyDict,
     slo_status |-> EmptyDict, consecutive_surrenders |-> 0,
     completed_slo_ids |-> <<>>, skipped_slo_ids |-> <<>>,
     consolidation_complete |-> FALSE]

\* BuildPhaseContext.add_slo
B_add_slo(ctx, slo_id) ==
    [ctx EXCEPT !.slos = Append(@, slo_id),
                !.slo_status = DictSet(@, slo_id, "not_started"),
                !.construction_rounds = DictSet(@, slo_id, <<>>)]

\* BuildPhaseContext.is_construction_verified
is_construction_verified(ctx) ==
    IF get_current_slo(ctx) # None
    THEN DictGet(ctx.slo_status, get_current_slo(ctx), None) = "constructed"
    ELSE FALSE

\* BuildPhaseContext.mark_current_constructed
mark_current_constructed(ctx) ==
    IF get_current_slo(ctx) # None
    THEN [ctx EXCEPT !.slo_status = DictSet(@, get_current_slo(ctx), "constructed")]
    ELSE ctx

\* BuildPhaseContext.add_construction_round: a round is kept as its outcome
add_construction_round(ctx, outcome) ==
    IF get_current_slo(ctx) # None
    THEN [ctx EXCEPT !.construction_rounds =
            DictSet(@, get_current_slo(ctx),
                    Append(DictGet(@, get_current_slo(ctx), <<>>), outcome))]
    ELSE ctx

\* levels of increase_scaffold / decrease_scaffold
ScaffoldLevels == <<"none", "light", "medium", "heavy">>

\* levels.index(self.current_scaffold_level) raises ValueError for a level
\* that is not in the list
LevelIndexRaises(ctx) == ~InList(ctx.current_scaffold_level, ScaffoldLevels)

\* levels.index(self.current_scaffold_level), counted from 1
LevelIndex(ctx) == CHOOSE i \in DOMAIN ScaffoldLevels : ScaffoldLevels[i] = ctx.current_scaffold_level

\* BuildPhaseContext.increase_scaffold (for a level of the list)
increase_scaffold(ctx) ==
    IF LevelIndex(ctx) < Len(ScaffoldLevels)
    THEN [ctx EXCEPT !.current_scaffold_level = ScaffoldLevels[LevelIndex(ctx) + 1]]
    ELSE ctx

\* BuildPhaseContext.decrease_scaffold (for a level of the list)
decrease_scaffold(ctx) ==
    IF LevelIndex(ctx) > 1
    THEN [ctx EXCEPT !.current_scaffold_level = ScaffoldLevels[LevelIndex(ctx) - 1]]
    ELSE ctx

\* BuildPhaseContext.enter_surrender_recovery
enter_surrender_recovery(ctx) ==
    [ctx EXCEPT !.current_mode = "surrender_recovery", !.consecutive_surrenders = @ + 1]

\* BuildPhaseContext.exit_special_mode
exit_special_mode(ctx) ==
    [ctx EXCEPT !.current_mode = "normal", !.consecutive_surrenders = 0]

\* BuildPhaseContext.advance_to_next_slo
B_advance_to_next_slo(ctx) ==
    LET current == get_current_slo(ctx)
        completed == IF current # None /\ ~InList(current, ctx.completed_slo_ids)
                     THEN Append(ctx.completed_slo_ids, current)
                     ELSE ctx.completed_slo_ids
        i == NextOpenIndex(ctx, completed)
    IN IF i >= 0
       THEN [ctx EXCEPT !.completed_slo_ids = completed, !.current_slo_index = i,
                        !.current_scaffold_level = "medium", !.current_mode = "normal",
                        !.consecutive_surrenders = 0]
       ELSE [ctx EXCEPT !.completed_slo_ids = completed]

\* BuildPhaseContext.to_dict
BuildToDict(ctx) ==
    [phase_visits |-> ctx.phase_visits,
     backward_trigger |-> ctx.backward_trigger,
     backward_trigger_detail |-> ctx.backward_trigger_detail,
     anchor_questions_asked |-> ctx.anchor_questions_asked,
     anchors_confirmed |-> ctx.anchors_confirmed,
     slos |-> [i \in DOMAIN ctx.slos |-> [id |-> ctx.slos[i]]],
     selected_slo_ids |-> ctx.selected_slo_ids,
     slos_presented |-> ctx.slos_presented,
     slos_confirmed |-> ctx.slos_confirmed,
     sequences_designed |-> ctx.sequences_designed,
     current_slo_index |-> ctx.current_slo_index,
     current_scaffold_level |-> ctx.current_scaffold_level,
     current_mode |-> ctx.current_mode,
     construction_rounds |-> ctx.construction_rounds,
     slo_status |-> ctx.slo_status,
     consecutive_surrenders |-> ctx.consecutive_surrenders,
     completed_slo_ids |-> ctx.completed_slo_ids,
     skipped_slo_ids |-> ctx.skipped_slo_ids,
     consolidation_complete |-> ctx.consolidation_complete]

\* BuildPhaseContext.from_dict
BuildFromDict(data) ==
    LET ss == DictGet(data, "slos", <<>>)
    IN [BuildPhaseContext EXCEPT
        !.phase_visits = DictGet(data, "phase_visits", EmptyDict),
        !.backward_trigger = DictGet(data, "backward_trigger", None),
        !.backward_trigger_detail = DictGet(data, "backward_trigger_detail", None),
        !.anchor_questions_asked = DictGet(data, "anchor_questions_asked", FALSE),
        !.anchors_confirmed = DictGet(data, "anchors_confirmed", FALSE),
        !.slos = [i \in DOMAIN ss |-> ss[i].id],
        !.selected_slo_ids = DictGet(data, "selected_slo_ids", <<>>),
        !.slos_presented = DictGet(data, "slos_presented", FALSE),
        !.slos_confirmed = DictGet(data, "slos_confirmed", FALSE),
        !.sequences_designed = DictGet(data, "sequences_designed", FALSE),
        !.current_slo_index = DictGet(data, "current_slo_index", 0),
        !.current_scaffold_level = DictGet(data, "current_scaffold_level", "medium"),
        !.current_mode = DictGet(data, "current_mode", "normal"),
        !.construction_rounds = DictGet(data, "construction_rounds", EmptyDict),
        !.slo_status = DictGet(data, "slo_status", EmptyDict),
        !.consecutive_surrenders = DictGet(data, "consecutive_surrenders", 0),
        !.completed_slo_ids = DictGet(data, "completed_slo_ids", <<>>),
        !.skipped_slo_ids = DictGet(data, "skipped_slo_ids", <<>>),
        !.consolidation_complete = DictGet(data, "consolidation_complete", FALSE)]

\* BuildAgent._evaluate_transition_condition
BuildCondition(ctx, condition) ==
    CASE condition = "anchors_confirmed" -> ctx.anchors_confirmed
      [] condition = "slos_selected" -> ctx.slos_confirmed /\ Len(ctx.selected_slo_ids) > 0
      [] condition = "sequence_designed" -> ctx.sequences_designed
      [] condition = "construction_verified" -> is_construction_verified(ctx)
      [] condition = "next_slo_available" -> has_next_slo(ctx)
      [] condition = "all_slos_complete" -> ~has_next_slo(ctx)
      [] condition = "consolidation_complete" -> ctx.consolidation_complete
      [] condition = "anchor_gap_detected" -> ctx.backward_trigger = "anchor_gap_detected"
      [] OTHER -> FALSE

\* BuildAgent._get_allowed_tools (the tools that change the context)
BuildAllowedTools(phase) ==
    CASE phase = "ANCHOR_DISCOVERY" -> {"mark_anchor_questions_asked", "mark_anchors_confirmed"}
      [] phase = "CLASSIFY" -> {"emit_construction_slo", "mark_slos_presented",
                                "mark_slos_selected"}
      [] phase = "SEQUENCE_DESIGN" -> {"mark_sequences_designed"}
      [] phase = "CONSTRUCTION" -> {"mark_scaffold_delivered", "record_construction_round",
                                    "set_scaffold_level", "flag_anchor_gap",
                                    "mark_construction_verified"}
      [] phase = "SLO_COMPLETE" -> {"advance_to_next_slo"}
      [] phase = "CONSOLIDATION" -> {"mark_consolidation_complete"}
      [] OTHER -> {}

(***************************************************************************)
(* Per-agent overrides                                                     *)
(***************************************************************************)
\* _create_phase_context
create_phase_context(m) ==
    CASE m = "research" -> ResearchPhaseContext
      [] m = "understand" -> UnderstandPhaseContext
      [] m = "build" -> BuildPhaseContext

\* _serialize_phase_context
serialize_phase_context(m, ctx) ==
    CASE m = "research" -> ResearchToDict(ctx)
      [] m = "understand" -> UnderstandToDict(ctx)
      [] m = "build" -> BuildToDict(ctx)

\* _restore_phase_context
restore_phase_context(m, data) ==
    CASE m = "research" -> ResearchFromDict(data)
      [] m = "understand" -> UnderstandFromDict(data)
      [] m = "build" -> BuildFromDict(data)

\* _evaluate_transition_condition
evaluate_transition_condition(m, ctx, condition) ==
    CASE m = "research" -> ResearchCondition(ctx, condition)
      [] m = "understand" -> UnderstandCondition(ctx, condition)
      [] m = "build" -> BuildCondition(ctx, condition)

\* _get_allowed_tools
get_allowed_tools(m, phase) ==
    CASE m = "research" -> ResearchAllowedTools(phase)
      [] m = "understand" -> UnderstandAllowedTools(phase)
      [] m = "build" -> BuildAllowedTools(phase)

\* the condition names of the agent's table that currently evaluate to True
TrueConditions(m, ctx) ==
    {phase_transitions(m)[i].condition : i \in
        {j \in DOMAIN phase_transitions(m) :
            evaluate_transition_condition(m, ctx, phase_transitions(m)[j].condition)}}

\* variant: the checkpoints of Understand and Build are raised with the latch set
PhaseCheckpoint_no_latch_check(m, phase, ctx) ==
    CASE m = "research" ->
            IF phase = "DECOMPOSE" /\ ~ctx.question_tree_approved
            THEN "decompose_approval" ELSE None
      [] m = "understand" ->
            IF phase = "CONFIGURE" /\ ~ctx.session_configured THEN "configure_approval"
            ELSE IF phase = "CLASSIFY" /\ ~ctx.slos_confirmed THEN "classify_approval"
            ELSE IF phase = "CALIBRATE" /\ ctx.current_slo_calibrated THEN "calibrate_approval"
            ELSE None
      [] m = "build" ->
            IF phase = "ANCHOR_DISCOVERY" /\ ctx.anchors_confirmed THEN "anchor_approval"
            ELSE IF phase = "CLASSIFY" /\ ctx.slos_confirmed THEN "classify_approval"
            ELSE None

\* the checkpoint requested when a phase execution ends, or None:
\* ResearchAgent._execute_phase, UnderstandAgent._handle_phase_checkpoint,
\* BuildAgent._handle_phase_checkpoint
PhaseCheckpoint(m, phase, ctx) ==
    CASE m = "research" ->
            IF phase = "DECOMPOSE" /\ ~ctx.question_tree_approved
            THEN "decompose_approval" ELSE None
      [] m = "understand" ->
            IF ctx.awaiting_user_input THEN None
            ELSE IF phase = "CONFIGURE" /\ ~ctx.session_configured THEN "configure_approval"
            ELSE IF phase = "CLASSIFY" /\ ~ctx.slos_confirmed THEN "classify_approval"
            ELSE IF phase = "CALIBRATE" /\ ctx.current_slo_calibrated THEN "calibrate_approval"
            ELSE None
      [] m = "build" ->
            IF ctx.awaiting_user_input THEN None
            ELSE IF phase = "ANCHOR_DISCOVERY" /\ ctx.anchors_confirmed THEN "anchor_approval"
            ELSE IF phase = "CLASSIFY" /\ ctx.slos_confirmed THEN "classify_approval"
            ELSE None

\* what the agent does with the response to that checkpoint
ApplyCheckpoint(m, cp, ctx, approved) ==
    CASE m = "research" /\ cp = "decompose_approval" /\ approved ->
            [ctx EXCEPT !.question_tree_approved = TRUE]
      [] m = "understand" /\ cp = "configure_approval" /\ approved ->
            [ctx EXCEPT !.session_configured = TRUE]
      [] m = "understand" /\ cp = "classify_approval" /\ approved ->
            [ctx EXCEPT !.selected_slo_ids = ctx.slos, !.slos_confirmed = TRUE]
      [] OTHER -> ctx

\* variant: without a handler the checkpoint is denied
handle_checkpoint_deny(handler, answer) == IF handler THEN answer ELSE FALSE

\* BaseForgeAgent._handle_checkpoint: response.approved, where answer is what
\* the configured handler returns
handle_checkpoint(handler, answer) == IF handler THEN answer ELSE TRUE

\* no checkpoint was raised
NoCheckpoint == [id |-> None, handler_called |-> FALSE, answer |-> TRUE, approved |-> FALSE]

(***************************************************************************)
(* Prompt selection: _get_phase_prompt of the three agents, by template    *)
(***************************************************************************)
\* ResearchAgent._get_phase_prompt
R_get_phase_prompt(phase, visit_count) ==
    CASE phase = "DECOMPOSE" ->
            IF visit_count <= 1 THEN "DECOMPOSE_INITIAL_PROMPT"
            ELSE "DECOMPOSE_REENTRY_PROMPT"
      [] phase = "ANSWER" ->
            IF visit_count <= 1 THEN "ANSWER_INITIAL_PROMPT" ELSE "ANSWER_REENTRY_PROMPT"
      [] phase = "RISE_ABOVE" ->
            IF visit_count <= 1 THEN "RISE_ABOVE_INITIAL_PROMPT"
            ELSE "RISE_ABOVE_REENTRY_PROMPT"
      [] phase = "EXPAND" ->
            IF visit_count <= 1 THEN "EXPAND_INITIAL_PROMPT" ELSE "EXPAND_REENTRY_PROMPT"
      [] OTHER -> ""

\* UnderstandPhaseContext.get_current_probe_results: record_probe_result is
\* not among the modelled tools, so no probe result is ever stored
get_current_probe_results(ctx) == {}

\* UnderstandPhaseContext.get_remaining_probes
get_remaining_probes(ctx) ==
    {"feynman", "minimal_example", "boundary"} \ get_current_probe_results(ctx)

\* UnderstandAgent._get_phase_prompt
U_get_phase_prompt(ctx, phase, visit_count) ==
    CASE phase = "SELF_ASSESS" -> "SELF_ASSESS_PROMPT"
      [] phase = "CONFIGURE" ->
            IF ctx.config_questions_asked /\ ~ctx.session_configured
            THEN "CONFIGURE_RESUME_PROMPT" ELSE "CONFIGURE_PROMPT"
      [] phase = "CLASSIFY" ->
            IF ctx.slos_presented /\ ~ctx.slos_confirmed
            THEN "CLASSIFY_RESUME_PROMPT" ELSE "CLASSIFY_INITIAL_PROMPT"
      [] phase = "CALIBRATE" ->
            IF get_current_probe_results(ctx) # {} /\ get_remaining_probes(ctx) # {}
            THEN "CALIBRATE_RESUME_PROMPT"
            ELSE IF visit_count <= 1 THEN "CALIBRATE_INITIAL_PROMPT"
            ELSE "CALIBRATE_REENTRY_PROMPT"
      [] phase = "DIAGNOSE" ->
            IF visit_count <= 1 THEN "DIAGNOSE_INITIAL_PROMPT"
            ELSE "DIAGNOSE_REENTRY_PROMPT"
      [] phase = "SLO_COMPLETE" -> "SLO_COMPLETE_PROMPT"
      [] phase = "COMPLETE" -> "COMPLETE_PROMPT"
      [] OTHER -> ""

\* BuildPhaseContext.get_current_rounds
get_current_rounds(ctx) ==
    IF get_current_slo(ctx) # None
    THEN DictGet(ctx.construction_rounds, get_current_slo(ctx), <<>>)
    ELSE <<>>

\* BuildAgent._get_phase_prompt
B_get_phase_prompt(ctx, phase, visit_count) ==
    CASE phase = "ANCHOR_DISCOVERY" ->
            IF ctx.anchor_questions_asked /\ ~ctx.anchors_confirmed
            THEN "ANCHOR_DISCOVERY_RESUME_PROMPT" ELSE "ANCHOR_DISCOVERY_PROMPT"
      [] phase = "CLASSIFY" ->
            IF ctx.slos_presented /\ ~ctx.slos_confirmed
            THEN "CLASSIFY_RESUME_PROMPT" ELSE "CLASSIFY_PROMPT"
      [] phase = "SEQUENCE_DESIGN" -> "SEQUENCE_DESIGN_PROMPT"
      [] phase = "CONSTRUCTION" ->
            IF visit_count > 1 THEN "CONSTRUCTION_REENTRY_PROMPT"
            ELSE IF get_current_rounds(ctx) # <<>> THEN "CONSTRUCTION_RESUME_PROMPT"
            ELSE "CONSTRUCTION_INITIAL_PROMPT"
      [] phase = "SLO_COMPLETE" -> "SLO_COMPLETE_PROMPT"
      [] phase = "CONSOLIDATION" -> "CONSOLIDATION_PROMPT"
      [] phase = "COMPLETE" -> "COMPLETE_PROMPT"
      [] OTHER -> ""

\* self._get_phase_prompt(phase, visit_count) of the agent of mode m
get_phase_prompt(m, ctx, phase, visit_count) ==
    CASE m = "research" -> R_get_phase_prompt(phase, visit_count)
      [] m = "understand" -> U_get_phase_prompt(ctx, phase, visit_count)
      [] m = "build" -> B_get_phase_prompt(ctx, phase, visit_count)

(***************************************************************************)
(* Persistence                                                             *)
(***************************************************************************)
\* TransitionRecord.to_dict
RecordToDict(t) ==
    [fromPhase |-> t.from_phase, toPhase |-> t.to_phase, reason |-> t.reason,
     isBackward |-> t.is_backward, timestamp |-> isoformat(t.timestamp)]

\* BaseForgeAgent.get_state
get_state(m, phase, ctx) ==
    [agent_type |-> m,
     current_phase |-> IF phase # None THEN value(m, phase) ELSE None,
     phase_context |-> serialize_phase_context(m, ctx),
     transition_history |->
        [i \in DOMAIN ctx.transition_history |-> RecordToDict(ctx.transition_history[i])]]

\* factory.save_agent_state: the value stored in session.agent_state.counters
save_agent_state(state) ==
    [current_phase |-> DictGet(state, "current_phase", None),
     agent_type |-> DictGet(state, "agent_type", None),
     phase_context |-> DictGet(state, "phase_context", EmptyDict),
     transition_history |-> DictGet(state, "transition_history", <<>>)]

\* variant: the persisted current_phase is not handed to the factory
get_agent_state_for_restore_no_phase(c) ==
    [current_phase |-> None,
     phase_context |-> DictGet(c, "phase_context", EmptyDict),
     transition_history |-> DictGet(c, "transition_history", <<>>)]

\* factory.get_agent_state_for_restore
get_agent_state_for_restore(c) ==
    [current_phase |-> DictGet(c, "current_phase", None),
     phase_context |-> DictGet(c, "phase_context", EmptyDict),
     transition_history |-> DictGet(c, "transition_history", <<>>)]

\* variant: only the latest record is restored
restore_transition_history_latest(history) ==
    IF history = <<>> THEN <<>>
    ELSE << [from_phase |-> history[Len(history)].fromPhase,
             to_phase |-> history[Len(history)].toPhase,
             reason |-> history[Len(history)].reason,
             is_backward |-> history[Len(history)].isBackward,
             timestamp |-> fromisoformat(history[Len(history)].timestamp)] >>

\* BaseForgeAgent._restore_transition_history
restore_transition_history(history) ==
    [i \in DOMAIN history |->
        [from_phase |-> history[i].fromPhase, to_phase |-> history[i].toPhase,
         reason |-> history[i].reason, is_backward |-> history[i].isBackward,
         timestamp |-> fromisoformat(history[i].timestamp)]]

\* session.journey_brief, which process_chat_message passes to the factory
JourneyBrief == "brief"

\* BaseForgeAgent.restore_state on a new agent object: the restored current_phase
\* and phase_context; journey_brief keeps the None of __init__
restore_state(m, state) ==
    [journey_brief |-> None,
     current_phase |-> PhaseByValue(m, state.current_phase),
     phase_context |->
        [restore_phase_context(m, DictGet(state, "phase_context", EmptyDict))
            EXCEPT !.transition_history =
                restore_transition_history(DictGet(state, "transition_history", <<>>))]]

\* variant: initialize without the increment_visit call
initialize_no_visit(m) ==
    [journey_brief |-> JourneyBrief,
     current_phase |-> initial_phase(m), phase_context |-> create_phase_context(m)]

\* BaseForgeAgent.initialize: the initial current_phase and phase_context
initialize(m) ==
    [journey_brief |-> JourneyBrief,
     current_phase |-> initial_phase(m),
     phase_context |-> increment_visit(create_phase_context(m), m, initial_phase(m))]

(***************************************************************************)
(* Events                                                                  *)
(***************************************************************************)
\* agent_thinking(f"Returning to {phase}: {backward_trigger}")
ReentryNotice(phase_value, trigger) ==
    [type |-> "agent.thinking", kind |-> "returning", phase |-> phase_value, trigger |-> trigger]

\* agent_thinking(f"Executing {phase.value} phase...")
ExecutingNotice(phase_value) ==
    [type |-> "agent.thinking", kind |-> "executing", phase |-> phase_value]

PhaseChanged(from, to, back, reason) ==
    [type |-> "phase.changed", fromPhase |-> from, toPhase |-> to,
     isBackward |-> back, reason |-> reason]

CheckpointEvent(id) == [type |-> "phase.checkpoint", checkpointId |-> id]

agent_awaiting_input(phase_value) == [type |-> "agent.awaiting_input", phase |-> phase_value]

agent_complete == [type |-> "agent.complete"]

(***************************************************************************)
(* Initial state: an agent object has been constructed for the session     *)
(* (BaseForgeAgent.__init__), the session holds no agent state yet.        *)
(***************************************************************************)
\* streaming.error_event(message, code)
error_event(code) == [type |-> "error", code |-> code]

NoContext == [none |-> TRUE]

NoTurn == [current_phase |-> None, phase_visits |-> EmptyDict, history_len |-> 0]

EvalIdle ==
    /\ ev_table = <<>>
    /\ ev_true = {}
    /\ ev_awaiting = FALSE
    /\ ev_result = [next_phase |-> None, reason |-> None]

EmitIdle ==
    /\ em_pc = "idle"
    /\ em_produced = <<>>
    /\ em_queue = <<>>
    /\ em_delivered = <<>>

ChatIdle ==
    /\ ch_pc = <<>>
    /\ ch_session = <<>>
    /\ ch_store = <<>>
    /\ ch_exists = TRUE
    /\ ch_deleted = FALSE

ToolIdle == tl_results = <<>>

\* no PhaseManager call is modelled
PhaseIdle ==
    /\ pm_session = <<>>
    /\ pm_result = <<>>
    /\ pm_events = <<>>

Init ==
    /\ mode \in Modes
    /\ has_handler \in BOOLEAN
    /\ pc = "created"
    /\ current_phase = None
    /\ phase_context = NoContext
    /\ transition_reason = None
    /\ events = <<>>
    /\ executed = <<>>
    /\ turn_start = NoTurn
    /\ counters = EmptyDict
    /\ clock = 0
    /\ checkpoint = NoCheckpoint
    /\ first_prompt = EmptyDict
    /\ journey_brief = None
    /\ EvalIdle
    /\ EmitIdle
    /\ ChatIdle
    /\ ToolIdle
    /\ PhaseIdle

(***************************************************************************)
(* Lifecycle: factory.get_or_create_agent and factory.save_agent_state     *)
(***************************************************************************)
\* get_or_create_agent: a fresh agent object, restored when the session holds a
\* persisted current_phase and initialised otherwise
GetOrCreateAgent ==
    /\ pc \in {"created", "idle", "errored"}
    /\ LET agent_state == get_agent_state_for_restore(counters)
           agent == IF agent_state.current_phase # None
                    THEN restore_state(mode, agent_state)
                    ELSE initialize(mode)
       IN /\ agent.current_phase # "ValueError"
          /\ journey_brief' = agent.journey_brief
          /\ current_phase' = agent.current_phase
          /\ phase_context' = agent.phase_context
          \* first visits are those the new agent object knows of
          /\ first_prompt' = [v \in DOMAIN first_prompt \cap
                                    DOMAIN agent.phase_context.phase_visits
                                |-> first_prompt[v]]
    /\ transition_reason' = None
    /\ events' = <<>>
    /\ executed' = <<>>
    /\ turn_start' = NoTurn
    /\ checkpoint' = NoCheckpoint
    /\ pc' = "idle"
    /\ UNCHANGED <<mode, has_handler, counters, clock>>
    /\ UNCHANGED eval_vars

\* get_or_create_agent when restore_state raises: self.Phase(value) fails before
\* current_phase is assigned, the new agent object is dropped and
\* process_chat_message reports PROCESSING_ERROR
RestoreFails ==
    /\ pc \in {"created", "idle", "errored"}
    /\ LET agent_state == get_agent_state_for_restore(counters)
       IN /\ agent_state.current_phase # None
          /\ restore_state(mode, agent_state).current_phase = "ValueError"
    /\ journey_brief' = None
    /\ current_phase' = None
    /\ phase_context' = NoContext
    /\ transition_reason' = None
    /\ events' = <<error_event("PROCESSING_ERROR")>>
    /\ executed' = <<>>
    /\ turn_start' = NoTurn
    /\ checkpoint' = NoCheckpoint
    /\ pc' = "errored"
    /\ UNCHANGED <<mode, has_handler, counters, clock, first_prompt>>
    /\ UNCHANGED eval_vars

\* save_agent_state(session, agent), called by the caller after the turn
SaveAgentState ==
    /\ pc = "done"
    /\ counters' = save_agent_state(get_state(mode, current_phase, phase_context))
    /\ pc' = "idle"
    /\ UNCHANGED <<mode, has_handler, current_phase, phase_context,
                   transition_reason, events, executed, turn_start, clock, checkpoint>>
    /\ UNCHANGED first_prompt
    /\ UNCHANGED journey_brief
    /\ UNCHANGED eval_vars

(***************************************************************************)
(* BaseForgeAgent.process_message                                          *)
(***************************************************************************)
\* variant: process_message without the latch reset
ProcessMessage_keep_latch ==
    /\ pc = "idle"
    /\ events' = <<>>
    /\ executed' = <<>>
    /\ turn_start' = [current_phase |-> current_phase,
                      phase_visits |-> phase_context.phase_visits,
                      history_len |-> Len(phase_context.transition_history)]
    /\ checkpoint' = NoCheckpoint
    /\ pc' = "loop"
    /\ UNCHANGED <<mode, has_handler, current_phase, phase_context, transition_reason,
                   counters, clock>>
    /\ UNCHANGED first_prompt
    /\ UNCHANGED journey_brief
    /\ UNCHANGED eval_vars

\* entry of process_message: the latch is cleared before the loop starts
ProcessMessage ==
    /\ pc = "idle"
    /\ phase_context' = [phase_context EXCEPT !.awaiting_user_input = FALSE]
    /\ events' = <<>>
    /\ executed' = <<>>
    /\ turn_start' = [current_phase |-> current_phase,
                      phase_visits |-> phase_context.phase_visits,
                      history_len |-> Len(phase_context.transition_history)]
    /\ checkpoint' = NoCheckpoint
    /\ pc' = "loop"
    /\ UNCHANGED <<mode, has_handler, current_phase, transition_reason, counters, clock>>
    /\ UNCHANGED first_prompt
    /\ UNCHANGED journey_brief
    /\ UNCHANGED eval_vars

\* variant: the generator returns at the complete phase without agent_complete
EmitComplete_silent ==
    /\ pc = "loop"
    /\ current_phase = complete_phase(mode)
    /\ pc' = "done"
    /\ UNCHANGED <<mode, has_handler, current_phase, phase_context, events,
                   transition_reason, executed, turn_start, counters, clock, checkpoint>>
    /\ UNCHANGED first_prompt
    /\ UNCHANGED journey_brief
    /\ UNCHANGED eval_vars

\* loop test fails: current_phase == complete_phase, agent_complete is yielded
EmitComplete ==
    /\ pc = "loop"
    /\ current_phase = complete_phase(mode)
    /\ events' = Append(events, agent_complete)
    /\ pc' = "done"
    /\ UNCHANGED <<mode, has_handler, current_phase, phase_context,
                   transition_reason, executed, turn_start, counters, clock, checkpoint>>
    /\ UNCHANGED first_prompt
    /\ UNCHANGED journey_brief
    /\ UNCHANGED eval_vars

\* loop body up to the point where the executor waits for the model:
\* the re-entry notice, then the executor's first event
BeginPhase ==
    /\ pc = "loop"
    /\ current_phase # complete_phase(mode)
    /\ LET visit_count == get_visit_count(phase_context, mode, current_phase)
           notice == IF visit_count > 1
                     THEN <<ReentryNotice(value(mode, current_phase),
                                          phase_context.backward_trigger)>>
                     ELSE <<>>
       IN events' = events \o notice \o <<ExecutingNotice(value(mode, current_phase))>>
    /\ executed' = Append(executed, current_phase)
    /\ checkpoint' = NoCheckpoint
    /\ LET visit_count == get_visit_count(phase_context, mode, current_phase)
           prompt == get_phase_prompt(mode, phase_context, current_phase, visit_count)
       IN first_prompt' =
            IF visit_count <= 1 /\ value(mode, current_phase) \notin DOMAIN first_prompt
            THEN DictSet(first_prompt, value(mode, current_phase), prompt)
            ELSE first_prompt
    /\ pc' = "exec"
    /\ UNCHANGED <<mode, has_handler, current_phase, phase_context,
                   transition_reason, turn_start, counters, clock>>
    /\ UNCHANGED journey_brief
    /\ UNCHANGED eval_vars

\* the executor reads self.journey_brief.original_question before it sends
\* the prompt: Research in the initial prompts of DECOMPOSE and EXPAND,
\* Understand and Build in the test of the (non-empty) message
ReadsBrief(m, ctx, phase, visit_count) ==
    CASE m = "research" ->
            R_get_phase_prompt(phase, visit_count)
                \in {"DECOMPOSE_INITIAL_PROMPT", "EXPAND_INITIAL_PROMPT"}
      [] m = "understand" -> TRUE
      [] m = "build" -> TRUE

\* the running executor dereferences a journey_brief that is None
BriefMissing ==
    /\ journey_brief = None
    /\ ReadsBrief(mode, phase_context, current_phase,
                  get_visit_count(phase_context, mode, current_phase))

\* rest of the loop body: the executor returns (requesting its checkpoint),
\* transitions are evaluated, and the loop either advances or breaks
EndPhase ==
    /\ pc = "exec"
    /\ ~BriefMissing
    /\ LET cp == PhaseCheckpoint(mode, current_phase, phase_context)
       IN \E answer \in BOOLEAN :
          LET approved == handle_checkpoint(has_handler, answer)
              ctx1 == IF cp # None
                      THEN ApplyCheckpoint(mode, cp, phase_context, approved)
                      ELSE phase_context
              ev1 == IF cp # None /\ mode = "research"
                     THEN Append(events, CheckpointEvent(cp)) ELSE events
              r == evaluate_transitions(phase_transitions(mode), current_phase,
                                        ctx1.awaiting_user_input,
                                        TrueConditions(mode, ctx1), transition_reason)
              next_phase == r.next_phase
          IN \* a handler that is not called gives no answer
             /\ (cp = None \/ ~has_handler) => answer
             /\ checkpoint' = IF cp # None
                              THEN [id |-> cp, handler_called |-> has_handler,
                                    answer |-> answer, approved |-> approved]
                              ELSE NoCheckpoint
             /\ IF next_phase # current_phase
                THEN LET back == is_backward_transition(phase_transitions(mode),
                                                        current_phase, next_phase)
                         reason == IF r.reason # None THEN r.reason ELSE "unknown"
                         ctx2 == record_transition(ctx1, mode, current_phase, next_phase,
                                                   reason, back, utcnow(clock))
                     IN /\ clock < MaxHistory
                        /\ phase_context' = increment_visit(ctx2, mode, next_phase)
                        /\ events' = Append(ev1, PhaseChanged(value(mode, current_phase),
                                                   value(mode, next_phase), back, r.reason))
                        /\ current_phase' = next_phase
                        /\ transition_reason' = None
                        /\ clock' = clock + 1
                        /\ pc' = "loop"
                ELSE /\ phase_context' = ctx1
                     /\ events' = Append(ev1, agent_awaiting_input(value(mode, current_phase)))
                     /\ transition_reason' = r.reason
                     /\ pc' = "done"
                     /\ UNCHANGED <<current_phase, clock>>
    /\ UNCHANGED <<mode, has_handler, executed, turn_start, counters>>
    /\ UNCHANGED first_prompt
    /\ UNCHANGED journey_brief
    /\ UNCHANGED eval_vars

\* variant: the loop catches the executor's exception and runs the phase again
RaiseInPhase_retry ==
    /\ pc = "exec"
    /\ pc' = "loop"
    /\ UNCHANGED <<mode, has_handler, current_phase, phase_context, transition_reason,
                   events, executed, turn_start, counters, clock, checkpoint>>
    /\ UNCHANGED first_prompt
    /\ UNCHANGED journey_brief
    /\ UNCHANGED eval_vars

\* the phase executor raises: nothing in process_message catches it, so the
\* generator ends with the exception before flush, evaluation and recording
RaiseInPhase ==
    /\ pc = "exec"
    /\ pc' = "failed"
    /\ UNCHANGED <<mode, has_handler, current_phase, phase_context, transition_reason,
                   events, executed, turn_start, counters, clock, checkpoint>>
    /\ UNCHANGED first_prompt
    /\ UNCHANGED journey_brief
    /\ UNCHANGED eval_vars

\* process_chat_message, except branch around agent.process_message: one error
\* event is emitted and the handler returns before save_agent_state
AgentError ==
    /\ pc = "failed"
    /\ events' = Append(events, error_event("AGENT_ERROR"))
    /\ pc' = "errored"
    \* time is observed only through the timestamps of transition records; those
    \* taken in the failed turn are dropped with the agent object
    /\ clock' = Len(get_agent_state_for_restore(counters).transition_history)
    /\ UNCHANGED <<mode, has_handler, current_phase, phase_context, transition_reason,
                   executed, turn_start, counters, checkpoint>>
    /\ UNCHANGED first_prompt
    /\ UNCHANGED journey_brief
    /\ UNCHANGED eval_vars

(***************************************************************************)
(* Tool handlers called by the model while a phase executes                *)
(***************************************************************************)
ToolCall(m, name) ==
    /\ pc = "exec"
    /\ mode = m
    /\ ~BriefMissing
    /\ name \in get_allowed_tools(mode, current_phase)
    /\ UNCHANGED <<mode, has_handler, pc, current_phase, transition_reason,
                   events, executed, turn_start, counters, clock, checkpoint>>
    /\ UNCHANGED first_prompt
    /\ UNCHANGED journey_brief
    /\ UNCHANGED eval_vars

\* research: emit_question
R_emit_question ==
    /\ ToolCall("research", "emit_question")
    /\ Len(phase_context.questions) < MaxQuestions
    /\ phase_context' = [phase_context EXCEPT
            !.questions = Append(@, Len(phase_context.questions) + 1)]

\* research: emit_answer
R_emit_answer ==
    /\ ToolCall("research", "emit_answer")
    /\ \E question_id \in 1..MaxQuestions :
        phase_context' = [phase_context EXCEPT !.answered_question_ids = @ \cup {question_id}]

\* research: skip_question
R_skip_question ==
    /\ ToolCall("research", "skip_question")
    /\ \E question_id \in 1..MaxQuestions :
        phase_context' = [phase_context EXCEPT !.skipped_question_ids = @ \cup {question_id}]

\* research: flag_new_category
R_flag_new_category ==
    /\ ToolCall("research", "flag_new_category")
    /\ phase_context' = [phase_context EXCEPT !.new_category_pending = "category",
                                              !.backward_trigger_detail = "reason"]

\* research: mark_answer_phase_complete
R_mark_answer_complete ==
    /\ ToolCall("research", "mark_answer_phase_complete")
    /\ phase_context' =
        IF Len(get_unanswered_questions(phase_context)) = 0
        THEN [phase_context EXCEPT !.high_priority_complete = TRUE]
        ELSE phase_context

\* research: flag_unanswered_needed
R_flag_unanswered_needed ==
    /\ ToolCall("research", "flag_unanswered_needed")
    /\ \E question_ids \in {<<>>, <<1>>} :
        phase_context' = [phase_context EXCEPT !.unanswered_for_synthesis = question_ids,
                                                  !.backward_trigger_detail = "reason"]

\* research: mark_synthesis_complete
R_mark_synthesis_complete ==
    /\ ToolCall("research", "mark_synthesis_complete")
    /\ phase_context' = [phase_context EXCEPT !.insights_complete = TRUE]

\* research: mark_expand_complete
R_mark_expand_complete ==
    /\ ToolCall("research", "mark_expand_complete")
    /\ phase_context' = [phase_context EXCEPT !.frontier_populated = TRUE]

\* the "selected_slo_ids" argument of mark_slos_selected, after parsing: every
\* emitted SLO for "all", else the listed ids (none, or the first SLO's id)
SelectedIds(ctx) == {ctx.slos, <<>>, <<SloId(1)>>}

\* understand: emit_knowledge_confidence
U_emit_knowledge_confidence ==
    /\ ToolCall("understand", "emit_knowledge_confidence")
    /\ \E confidence \in {"MEDIUM", "LOW"} :
        phase_context' = [phase_context EXCEPT !.knowledge_confidence = confidence]

\* what a tool handler leaves: the context, the events it queued with
\* emitter.emit_sync and the text it returns to the model
ToolOutcome(ctx, queued, result) == [ctx |-> ctx, queued |-> queued, result |-> result]

\* variant: emit_session_config without the guard
emit_session_config_unguarded(ctx) ==
    ToolOutcome([ctx EXCEPT !.session_configured = TRUE],
                <<"data.session_config">>, "Session configured")

\* understand: the handler of emit_session_config
emit_session_config(ctx) ==
    IF ctx.awaiting_user_input
    THEN ToolOutcome(ctx, <<>>, "ERROR")
    ELSE ToolOutcome([ctx EXCEPT !.session_configured = TRUE],
                     <<"data.session_config">>, "Session configured")

\* understand and build: the handler of mark_slos_selected
mark_slos_selected(ctx, selected_ids) ==
    IF ctx.awaiting_user_input
    THEN ToolOutcome(ctx, <<>>, "ERROR")
    ELSE ToolOutcome([ctx EXCEPT !.selected_slo_ids = selected_ids,
                                 !.slos_confirmed = TRUE],
                     <<"data.slos_selected">>, "SLOs selected")

\* build: the handler of mark_anchors_confirmed
mark_anchors_confirmed(ctx) ==
    IF ctx.awaiting_user_input
    THEN ToolOutcome(ctx, <<>>, "ERROR")
    ELSE ToolOutcome([ctx EXCEPT !.anchors_confirmed = TRUE],
                     <<"data.anchors_confirmed">>, "Anchors confirmed")

\* understand: emit_session_config
U_emit_session_config ==
    /\ ToolCall("understand", "emit_session_config")
    /\ phase_context' = emit_session_config(phase_context).ctx

\* understand: mark_config_questions_asked
U_mark_config_questions_asked ==
    /\ ToolCall("understand", "mark_config_questions_asked")
    /\ phase_context' = [phase_context EXCEPT !.config_questions_asked = TRUE,
                                              !.awaiting_user_input = TRUE]

\* understand: emit_slo
U_emit_slo ==
    /\ ToolCall("understand", "emit_slo")
    /\ Len(phase_context.slos) < MaxSlos
    /\ phase_context' = U_add_slo(phase_context, SloId(Len(phase_context.slos) + 1))

\* understand: mark_slos_presented
U_mark_slos_presented ==
    /\ ToolCall("understand", "mark_slos_presented")
    /\ phase_context' = [phase_context EXCEPT !.slos_presented = TRUE,
                                              !.awaiting_user_input = TRUE]

\* understand: mark_slos_selected (refused while awaiting user input)
U_mark_slos_selected ==
    /\ ToolCall("understand", "mark_slos_selected")
    /\ \E selected_ids \in SelectedIds(phase_context) :
        phase_context' = mark_slos_selected(phase_context, selected_ids).ctx

\* understand: mark_probe_question_asked
U_mark_probe_question_asked ==
    /\ ToolCall("understand", "mark_probe_question_asked")
    /\ phase_context' = [phase_context EXCEPT !.awaiting_user_input = TRUE]

\* understand: update_facet_status
U_update_facet_status_tool ==
    /\ ToolCall("understand", "update_facet_status")
    /\ \E facet \in {"vocabulary"}, status \in {"missing", "solid"} :
        phase_context' = U_update_facet_status(phase_context, facet, status)

\* understand: mark_calibration_complete
U_mark_calibration_complete ==
    /\ ToolCall("understand", "mark_calibration_complete")
    /\ phase_context' = [phase_context EXCEPT !.current_slo_calibrated = TRUE]

\* understand: mark_diagnostic_question_asked
U_mark_diagnostic_question_asked ==
    /\ ToolCall("understand", "mark_diagnostic_question_asked")
    /\ phase_context' = [phase_context EXCEPT !.awaiting_user_input = TRUE]

\* the diagnostic rounds the model records for an SLO, in order: two per core
\* facet, one failure, two transfer passes
DiagnosticRounds ==
    << [facet |-> "vocabulary", result |-> "fail", is_transfer |-> FALSE],
       [facet |-> "vocabulary", result |-> "pass", is_transfer |-> FALSE],
       [facet |-> "mental_model", result |-> "pass", is_transfer |-> FALSE],
       [facet |-> "mental_model", result |-> "pass", is_transfer |-> FALSE],
       [facet |-> "practical_grasp", result |-> "pass", is_transfer |-> FALSE],
       [facet |-> "practical_grasp", result |-> "pass", is_transfer |-> TRUE],
       [facet |-> "boundary_conditions", result |-> "pass", is_transfer |-> FALSE],
       [facet |-> "boundary_conditions", result |-> "pass", is_transfer |-> TRUE] >>

\* understand: record_diagnostic_result
U_record_diagnostic_result ==
    /\ ToolCall("understand", "record_diagnostic_result")
    /\ get_current_slo(phase_context) # None
    /\ get_current_slo(phase_context) \in DOMAIN phase_context.slo_counters
    /\ LET n == get_current_counters(phase_context).total_rounds + 1
       IN /\ n \in DOMAIN DiagnosticRounds
          /\ phase_context' = U_record_round(phase_context, DiagnosticRounds[n].facet,
                                             DiagnosticRounds[n].result = "pass",
                                             DiagnosticRounds[n].is_transfer)

\* understand: advance_to_next_slo
U_advance_to_next_slo_tool ==
    /\ ToolCall("understand", "advance_to_next_slo")
    /\ phase_context' = U_advance_to_next_slo(phase_context)

\* understand: skip_current_slo
U_skip_current_slo_tool ==
    /\ ToolCall("understand", "skip_current_slo")
    /\ Len(phase_context.skipped_slo_ids) < MaxSlos
    /\ phase_context' = U_skip_current_slo(phase_context)

\* build: mark_anchor_questions_asked
B_mark_anchor_questions_asked ==
    /\ ToolCall("build", "mark_anchor_questions_asked")
    /\ phase_context' = [phase_context EXCEPT !.anchor_questions_asked = TRUE,
                                              !.awaiting_user_input = TRUE]

\* build: mark_anchors_confirmed (refused while awaiting user input)
B_mark_anchors_confirmed ==
    /\ ToolCall("build", "mark_anchors_confirmed")
    /\ phase_context' = mark_anchors_confirmed(phase_context).ctx

\* build: emit_construction_slo
B_emit_construction_slo ==
    /\ ToolCall("build", "emit_construction_slo")
    /\ Len(phase_context.slos) < MaxSlos
    /\ phase_context' = B_add_slo(phase_context, SloId(Len(phase_context.slos) + 1))

\* build: mark_slos_presented
B_mark_slos_presented ==
    /\ ToolCall("build", "mark_slos_presented")
    /\ phase_context' = [phase_context EXCEPT !.slos_presented = TRUE,
                                              !.awaiting_user_input = TRUE]

\* build: mark_slos_selected (refused while awaiting user input)
B_mark_slos_selected ==
    /\ ToolCall("build", "mark_slos_selected")
    /\ \E selected_ids \in SelectedIds(phase_context) :
        phase_context' = mark_slos_selected(phase_context, selected_ids).ctx

\* build: mark_sequences_designed
B_mark_sequences_designed ==
    /\ ToolCall("build", "mark_sequences_designed")
    /\ phase_context' = [phase_context EXCEPT !.sequences_designed = TRUE]

\* build: mark_scaffold_delivered
B_mark_scaffold_delivered ==
    /\ ToolCall("build", "mark_scaffold_delivered")
    /\ phase_context' = [phase_context EXCEPT !.awaiting_user_input = TRUE]

\* build: flag_anchor_gap
B_flag_anchor_gap ==
    /\ ToolCall("build", "flag_anchor_gap")
    /\ phase_context' = [phase_context EXCEPT !.backward_trigger = "anchor_gap_detected",
                                              !.backward_trigger_detail = "gap"]

\* build: mark_construction_verified
B_mark_construction_verified ==
    /\ ToolCall("build", "mark_construction_verified")
    /\ phase_context' = mark_current_constructed(phase_context)

\* build: advance_to_next_slo
B_advance_to_next_slo_tool ==
    /\ ToolCall("build", "advance_to_next_slo")
    /\ phase_context' = B_advance_to_next_slo(phase_context)

\* build: mark_consolidation_complete
B_mark_consolidation_complete ==
    /\ ToolCall("build", "mark_consolidation_complete")
    /\ phase_context' = [phase_context EXCEPT !.consolidation_complete = TRUE]

Next ==
    \/ GetOrCreateAgent
    \/ SaveAgentState
    \/ ProcessMessage
    \/ EmitComplete
    \/ BeginPhase
    \/ EndPhase
    \/ RaiseInPhase
    \/ AgentError
    \/ R_emit_question
    \/ R_emit_answer
    \/ R_skip_question
    \/ R_flag_new_category
    \/ R_mark_answer_complete
    \/ R_flag_unanswered_needed
    \/ R_mark_synthesis_complete
    \/ R_mark_expand_complete
    \/ U_emit_knowledge_confidence
    \/ U_emit_session_config
    \/ U_mark_config_questions_asked
    \/ U_emit_slo
    \/ U_mark_slos_presented
    \/ U_mark_slos_selected
    \/ U_mark_probe_question_asked
    \/ U_update_facet_status_tool
    \/ U_mark_calibration_complete
    \/ U_mark_diagnostic_question_asked
    \/ U_record_diagnostic_result
    \/ U_advance_to_next_slo_tool
    \/ U_skip_current_slo_tool
    \/ B_mark_anchor_questions_asked
    \/ B_mark_anchors_confirmed
    \/ B_emit_construction_slo
    \/ B_mark_slos_presented
    \/ B_mark_slos_selected
    \/ B_mark_sequences_designed
    \/ B_mark_scaffold_delivered
    \/ B_flag_anchor_gap
    \/ B_mark_construction_verified
    \/ B_advance_to_next_slo_tool
    \/ B_mark_consolidation_complete

Spec == Init /\ [][Next]_vars

(***************************************************************************)
(* SpecRestore: get_or_create_agent on a session whose persisted           *)
(* current_phase is any phase value of any agent, or no phase value at all *)
(***************************************************************************)
PhaseValues(m) == {Phase(m)[p] : p \in DOMAIN Phase(m)}

\* a persisted current_phase that no enumeration declares
UnknownPhaseValue == "archived"

PersistedPhaseValues == UNION {PhaseValues(m) : m \in Modes} \cup {UnknownPhaseValue}

\* session.agent_state.counters as a first saved turn leaves them, with the
\* persisted current_phase replaced
PersistedCounters(m) ==
    LET agent == initialize(m)
        saved == save_agent_state(get_state(m, agent.current_phase, agent.phase_context))
    IN {[saved EXCEPT !.current_phase = v] : v \in PersistedPhaseValues} \cup {EmptyDict}

InitRestore ==
    /\ mode \in Modes
    /\ has_handler \in BOOLEAN
    /\ pc = "created"
    /\ current_phase = None
    /\ phase_context = NoContext
    /\ transition_reason = None
    /\ events = <<>>
    /\ executed = <<>>
    /\ turn_start = NoTurn
    /\ counters \in PersistedCounters(mode)
    /\ clock = 0
    /\ checkpoint = NoCheckpoint
    /\ first_prompt = EmptyDict
    /\ journey_brief = None
    /\ EvalIdle
    /\ EmitIdle
    /\ ChatIdle
    /\ ToolIdle
    /\ PhaseIdle

NextRestore ==
    \/ GetOrCreateAgent
    \/ RestoreFails

SpecRestore == InitRestore /\ [][NextRestore]_vars

(***************************************************************************)
(* SpecChat: the chat route. send_chat_message queues process_chat_message *)
(* as a background task of its request; the tasks of different requests    *)
(* run on one event loop and switch at every await                         *)
(***************************************************************************)
Turns == 1..MaxTurns

InitChat ==
    /\ mode \in Modes
    /\ has_handler = FALSE
    /\ pc = "created"
    /\ current_phase = None
    /\ phase_context = NoContext
    /\ transition_reason = None
    /\ events = <<>>
    /\ executed = <<>>
    /\ turn_start = NoTurn
    /\ counters = EmptyDict
    /\ clock = 0
    /\ checkpoint = NoCheckpoint
    /\ first_prompt = EmptyDict
    /\ journey_brief = None
    /\ EvalIdle
    /\ EmitIdle
    /\ ch_pc = [t \in Turns |-> "unsent"]
    /\ ch_session = [t \in Turns |-> <<>>]
    /\ ch_store = <<>>
    /\ ch_exists = TRUE
    /\ ch_deleted = FALSE
    /\ ToolIdle
    /\ PhaseIdle

\* send_chat_message: the message is accepted and its task queued; messages are
\* numbered in the order of their requests
SendChatMessage(t) ==
    /\ ch_pc[t] = "unsent"
    /\ t > 1 => ch_pc[t - 1] # "unsent"
    /\ ch_pc' = [ch_pc EXCEPT ![t] = "accepted"]
    /\ UNCHANGED <<ch_session, ch_store, ch_exists, ch_deleted>>
    /\ UNCHANGED <<agent_vars, ev_vars, emit_vars, tool_vars, pm_vars>>

\* process_chat_message up to its first await: session = store.get(session_id),
\* which raises SessionNotFoundError when the session file is absent
\* (SESSION_NOT_FOUND, nothing saved)
LoadSession(t) ==
    /\ ch_pc[t] = "accepted"
    /\ IF ch_exists
       THEN /\ ch_session' = [ch_session EXCEPT ![t] = ch_store]
            /\ ch_pc' = [ch_pc EXCEPT ![t] = "running"]
       ELSE /\ ch_pc' = [ch_pc EXCEPT ![t] = "not_found"]
            /\ UNCHANGED ch_session
    /\ UNCHANGED <<ch_store, ch_exists, ch_deleted>>
    /\ UNCHANGED <<agent_vars, ev_vars, emit_vars, tool_vars, pm_vars>>

\* process_chat_message after the last event of agent.process_message:
\* save_agent_state(session, agent) and store.save(session)
SaveSession(t) ==
    /\ ch_pc[t] = "running"
    /\ ch_session' = [ch_session EXCEPT ![t] = Append(ch_session[t], t)]
    /\ ch_store' = Append(ch_session[t], t)
    /\ ch_exists' = TRUE
    /\ ch_pc' = [ch_pc EXCEPT ![t] = "saved"]
    /\ UNCHANGED ch_deleted
    /\ UNCHANGED <<agent_vars, ev_vars, emit_vars, tool_vars, pm_vars>>

\* process_chat_message when agent.process_message raises: AGENT_ERROR and
\* return without saving
AgentRaises(t) ==
    /\ ch_pc[t] = "running"
    /\ ch_pc' = [ch_pc EXCEPT ![t] = "failed"]
    /\ UNCHANGED <<ch_session, ch_store, ch_exists, ch_deleted>>
    /\ UNCHANGED <<agent_vars, ev_vars, emit_vars, tool_vars, pm_vars>>

NextChat ==
    \/ \E t \in Turns : SendChatMessage(t)
    \/ \E t \in Turns : LoadSession(t)
    \/ \E t \in Turns : SaveSession(t)
    \/ \E t \in Turns : AgentRaises(t)

SpecChat == InitChat /\ [][NextChat]_vars

(***************************************************************************)
(* SpecDelete: the chat pipeline of one session together with the route    *)
(* DELETE /sessions/{session_id}                                           *)
(***************************************************************************)
\* delete_session: store.delete unlinks the session file and reports whether
\* it existed; a missing session gives 404 and changes nothing
DeleteSession ==
    /\ ch_exists
    /\ ch_exists' = FALSE
    /\ ch_store' = <<>>
    /\ ch_deleted' = TRUE
    /\ UNCHANGED <<ch_pc, ch_session>>
    /\ UNCHANGED <<agent_vars, ev_vars, emit_vars, tool_vars, pm_vars>>

NextDelete ==
    \/ NextChat
    \/ DeleteSession

SpecDelete == InitChat /\ [][NextDelete]_vars

(***************************************************************************)
(* SpecLive: the turns of one agent object under fair scheduling. The loop *)
(* of process_message reads neither transition_history, nor the yielded    *)
(* events, nor a visit count beyond "greater than one"; DropTurnLog forgets *)
(* them at the head of the loop, so that a turn that never ends is a cycle. *)
(***************************************************************************)
\* visit counts as the loop reads them: 1 for a first visit, 2 for a re-entry
SeenVisits(visits) == [k \in DOMAIN visits |-> IF visits[k] > 1 THEN 2 ELSE visits[k]]

LogDropped ==
    /\ phase_context.transition_history = <<>>
    /\ phase_context.phase_visits = SeenVisits(phase_context.phase_visits)
    /\ events = <<>>
    /\ executed = <<>>
    /\ clock = 0

DropTurnLog ==
    /\ pc = "loop"
    /\ ~LogDropped
    /\ phase_context' = [phase_context EXCEPT
            !.transition_history = <<>>,
            !.phase_visits = SeenVisits(@)]
    /\ events' = <<>>
    /\ executed' = <<>>
    /\ clock' = 0
    /\ UNCHANGED <<mode, has_handler, pc, current_phase, transition_reason,
                   turn_start, counters, checkpoint, first_prompt, journey_brief>>
    /\ UNCHANGED eval_vars

\* the agent object is built once
CreateAgent == pc = "created" /\ GetOrCreateAgent

\* while current_phase != complete_phase: the next phase execution begins
LoopBody == pc = "loop" /\ LogDropped /\ BeginPhase

\* the loop test fails
LoopExit == pc = "loop" /\ LogDropped /\ EmitComplete

\* the Research agent: no tool of it sets awaiting_user_input
InitLive == Init /\ mode = "research"

NextLive ==
    \/ CreateAgent
    \/ SaveAgentState
    \/ ProcessMessage
    \/ DropTurnLog
    \/ LoopExit
    \/ LoopBody
    \/ EndPhase
    \/ R_emit_question
    \/ R_emit_answer
    \/ R_skip_question
    \/ R_flag_new_category
    \/ R_mark_answer_complete
    \/ R_flag_unanswered_needed
    \/ R_mark_synthesis_complete
    \/ R_mark_expand_complete

\* the event loop runs the coroutine of process_message on, and every phase
\* executor returns: no call stays inside _execute_phase for ever
Fairness ==
    /\ []<>(pc # "exec")
    /\ WF_vars(DropTurnLog)
    /\ WF_vars(LoopBody)
    /\ WF_vars(LoopExit)

SpecLive == InitLive /\ [][NextLive]_vars /\ Fairness

(***************************************************************************)
(* SpecTools: the guarded tool handlers of Understand and Build, called by  *)
(* the model while a phase executes, on contexts with the latch set or not  *)
(***************************************************************************)
\* phases whose tool list holds a guarded tool
GuardedPhases(m) ==
    CASE m = "understand" -> {"CONFIGURE", "CLASSIFY"}
      [] m = "build" -> {"ANCHOR_DISCOVERY", "CLASSIFY"}

\* contexts of an executing phase: SLOs emitted or not, confirmed or not, the
\* configuration or the anchors confirmed or not, the latch set or not
ToolContexts(m) ==
    LET c0 == initialize(m).phase_context
        cs == IF m = "understand" THEN {c0, U_add_slo(c0, SloId(1))}
                                  ELSE {c0, B_add_slo(c0, SloId(1))}
    IN UNION {
        {IF m = "understand"
         THEN [c EXCEPT !.awaiting_user_input = latch, !.slos_confirmed = confirmed,
                        !.selected_slo_ids = IF confirmed THEN c.slos ELSE <<>>,
                        !.session_configured = flag]
         ELSE [c EXCEPT !.awaiting_user_input = latch, !.slos_confirmed = confirmed,
                        !.selected_slo_ids = IF confirmed THEN c.slos ELSE <<>>,
                        !.anchors_confirmed = flag]
            : latch \in BOOLEAN, confirmed \in BOOLEAN, flag \in BOOLEAN}
        : c \in cs}

InitTools ==
    /\ mode \in {"understand", "build"}
    /\ has_handler = FALSE
    /\ pc = "exec"
    /\ current_phase \in GuardedPhases(mode)
    /\ phase_context \in ToolContexts(mode)
    /\ transition_reason = None
    /\ events = <<>>
    /\ executed = <<current_phase>>
    /\ turn_start = NoTurn
    /\ counters = EmptyDict
    /\ clock = 0
    /\ checkpoint = NoCheckpoint
    /\ first_prompt = EmptyDict
    /\ journey_brief = JourneyBrief
    /\ EvalIdle
    /\ EmitIdle
    /\ ChatIdle
    /\ ToolIdle
    /\ PhaseIdle

\* one call of a tool handler by the model: the handler changes the context,
\* queues its events with emitter.emit_sync and returns its text
CallTool(m, name, outcome) ==
    /\ pc = "exec"
    /\ mode = m
    /\ name \in get_allowed_tools(mode, current_phase)
    /\ Len(tl_results) < MaxCalls
    /\ phase_context' = outcome.ctx
    /\ em_queue' = em_queue \o [i \in DOMAIN outcome.queued |-> [type |-> outcome.queued[i]]]
    /\ tl_results' = Append(tl_results, [tool |-> name, result |-> outcome.result])
    /\ UNCHANGED <<mode, has_handler, pc, current_phase, transition_reason, events,
                   executed, turn_start, counters, clock, checkpoint, first_prompt,
                   journey_brief>>
    /\ UNCHANGED <<ev_vars, chat_vars, pm_vars, em_pc, em_produced, em_delivered>>

T_emit_session_config ==
    CallTool("understand", "emit_session_config", emit_session_config(phase_context))

T_mark_slos_selected ==
    \E selected_ids \in SelectedIds(phase_context) :
        CallTool(mode, "mark_slos_selected", mark_slos_selected(phase_context, selected_ids))

T_mark_anchors_confirmed ==
    CallTool("build", "mark_anchors_confirmed", mark_anchors_confirmed(phase_context))

NextTools ==
    \/ T_emit_session_config
    \/ T_mark_slos_selected
    \/ T_mark_anchors_confirmed

SpecTools == InitTools /\ [][NextTools]_vars

(***************************************************************************)
(* SpecMastery: one execution of DIAGNOSE in Understand. The model records *)
(* diagnostic rounds with any facet and result and updates facet statuses;  *)
(* the phase execution ends with the evaluation of the transitions         *)
(***************************************************************************)
\* one turn of the loop body after a transition: the record and the visit
EnterPhase(ctx, m, from, to, reason, now) ==
    increment_visit(record_transition(ctx, m, from, to, reason, FALSE, utcnow(now)), m, to)

\* the context on entry to DIAGNOSE after SELF_ASSESS, CONFIGURE, CLASSIFY and
\* CALIBRATE, with the SLO "slo-1" selected; emitted says whether emit_slo was
\* called for it (get_current_slo is None when it was not)
DiagnoseContext(emitted) ==
    LET c0 == initialize("understand").phase_context
        c1 == EnterPhase(c0, "understand", "SELF_ASSESS", "CONFIGURE",
                         "knowledge_confidence_established", 0)
        c2 == EnterPhase([c1 EXCEPT !.config_questions_asked = TRUE,
                                    !.session_configured = TRUE],
                         "understand", "CONFIGURE", "CLASSIFY", "session_preferences_set", 1)
        c3 == IF emitted THEN U_add_slo(c2, SloId(1)) ELSE c2
        c4 == EnterPhase([c3 EXCEPT !.slos_presented = TRUE, !.slos_confirmed = TRUE,
                                    !.selected_slo_ids = <<SloId(1)>>],
                         "understand", "CLASSIFY", "CALIBRATE", "slos_selected", 2)
    IN EnterPhase([c4 EXCEPT !.current_slo_calibrated = TRUE],
                  "understand", "CALIBRATE", "DIAGNOSE", "calibration_complete", 3)

InitMastery ==
    /\ mode = "understand"
    /\ has_handler = FALSE
    /\ pc = "exec"
    /\ current_phase = "DIAGNOSE"
    /\ phase_context \in {DiagnoseContext(emitted) : emitted \in BOOLEAN}
    /\ transition_reason = None
    /\ events = <<>>
    /\ executed = <<"DIAGNOSE">>
    /\ turn_start = NoTurn
    /\ counters = EmptyDict
    /\ clock = Len(phase_context.transition_history)
    /\ checkpoint = NoCheckpoint
    /\ first_prompt = EmptyDict
    /\ journey_brief = JourneyBrief
    /\ EvalIdle
    /\ EmitIdle
    /\ ChatIdle
    /\ ToolIdle
    /\ PhaseIdle

\* understand: record_diagnostic_result with the arguments the model chooses
M_record_diagnostic_result ==
    /\ ToolCall("understand", "record_diagnostic_result")
    /\ get_current_slo(phase_context) # None
    /\ get_current_counters(phase_context).total_rounds < MaxRounds
    /\ \E facet \in CoreFacets, result \in {"pass", "fail"}, is_transfer \in BOOLEAN :
        phase_context' = U_record_round(phase_context, facet, result = "pass", is_transfer)

NextMastery ==
    \/ M_record_diagnostic_result
    \/ U_update_facet_status_tool
    \/ EndPhase

SpecMastery == InitMastery /\ [][NextMastery]_vars

(***************************************************************************)
(* SpecSlo: one execution of SLO_COMPLETE in Understand and Build. The     *)
(* model calls advance_to_next_slo and skip_current_slo in any order; each *)
(* call is logged with the text the handler returns                        *)
(***************************************************************************)
\* the value advance_to_next_slo returns: whether a selected SLO neither
\* completed nor skipped was found after the current one was marked
advance_returns(ctx) ==
    LET current == get_current_slo(ctx)
        completed == IF current # None /\ ~InList(current, ctx.completed_slo_ids)
                     THEN Append(ctx.completed_slo_ids, current)
                     ELSE ctx.completed_slo_ids
    IN NextOpenIndex(ctx, completed) >= 0

\* the tool handler advance_to_next_slo of the Understand and Build agents
advance_to_next_slo(m, ctx) ==
    LET after == IF m = "understand" THEN U_advance_to_next_slo(ctx)
                 ELSE B_advance_to_next_slo(ctx)
    IN IF advance_returns(ctx)
       THEN ToolOutcome(after, <<"data.slo_transition">>, "Advanced to next SLO")
       ELSE ToolOutcome(after, <<>>, "No more SLOs remaining")

\* the tool handler skip_current_slo of the Understand agent
skip_current_slo(ctx) ==
    ToolOutcome(U_skip_current_slo(ctx), <<"data.slo_skipped">>, "SLO skipped")

SelectableIds == {SloId(i) : i \in 1..MaxSelected}

RECURSIVE AddSlos(_, _, _)
\* emit_slo / emit_construction_slo called for "slo-1" .. "slo-k"
AddSlos(m, ctx, k) ==
    IF k = 0 THEN ctx
    ELSE LET c == AddSlos(m, ctx, k - 1)
         IN IF m = "understand" THEN U_add_slo(c, SloId(k)) ELSE B_add_slo(c, SloId(k))

RECURSIVE RecordRounds(_, _)
\* the first k diagnostic rounds recorded for the current SLO
RecordRounds(ctx, k) ==
    IF k = 0 THEN ctx
    ELSE U_record_round(RecordRounds(ctx, k - 1), DiagnosticRounds[k].facet,
                        DiagnosticRounds[k].result = "pass", DiagnosticRounds[k].is_transfer)

\* the context on the first entry to SLO_COMPLETE: k SLOs emitted, the ids
\* selected chosen with mark_slos_selected, the first selected SLO mastered
\* (Understand) or constructed (Build)
SloCompleteContext(m, k, selected) ==
    IF m = "understand"
    THEN LET c0 == initialize("understand").phase_context
             c1 == EnterPhase(c0, m, "SELF_ASSESS", "CONFIGURE",
                              "knowledge_confidence_established", 0)
             c2 == EnterPhase([c1 EXCEPT !.config_questions_asked = TRUE,
                                         !.session_configured = TRUE],
                              m, "CONFIGURE", "CLASSIFY", "session_preferences_set", 1)
             c3 == mark_slos_selected([AddSlos(m, c2, k) EXCEPT !.slos_presented = TRUE],
                                      selected).ctx
             c4 == EnterPhase(c3, m, "CLASSIFY", "CALIBRATE", "slos_selected", 2)
             c5 == EnterPhase([c4 EXCEPT !.current_slo_calibrated = TRUE],
                              m, "CALIBRATE", "DIAGNOSE", "calibration_complete", 3)
         IN EnterPhase(RecordRounds(c5, Len(DiagnosticRounds)),
                       m, "DIAGNOSE", "SLO_COMPLETE", "mastery_criteria_met", 4)
    ELSE LET c0 == initialize("build").phase_context
             c1 == EnterPhase([c0 EXCEPT !.anchor_questions_asked = TRUE,
                                         !.anchors_confirmed = TRUE],
                              m, "ANCHOR_DISCOVERY", "CLASSIFY", "anchors_confirmed", 0)
             c2 == mark_slos_selected([AddSlos(m, c1, k) EXCEPT !.slos_presented = TRUE],
                                      selected).ctx
             c3 == EnterPhase(c2, m, "CLASSIFY", "SEQUENCE_DESIGN", "slos_selected", 1)
             c4 == EnterPhase([c3 EXCEPT !.sequences_designed = TRUE],
                              m, "SEQUENCE_DESIGN", "CONSTRUCTION", "sequence_designed", 2)
         IN EnterPhase(mark_current_constructed(c4),
                       m, "CONSTRUCTION", "SLO_COMPLETE", "construction_verified", 3)

\* SLO_COMPLETE is only entered with a current SLO: the first selected id
\* names an emitted SLO
SloCompleteContexts(m) ==
    UNION {{SloCompleteContext(m, k, selected) :
                selected \in {q \in BoundedSeq(SelectableIds, MaxSelected) :
                                 /\ q # <<>>
                                 /\ \E i \in 1..k : q[1] = SloId(i)}}
           : k \in 1..MaxSelected}

InitSlo ==
    /\ mode \in {"understand", "build"}
    /\ has_handler = FALSE
    /\ pc = "exec"
    /\ current_phase = "SLO_COMPLETE"
    /\ phase_context \in SloCompleteContexts(mode)
    /\ transition_reason = None
    /\ events = <<>>
    /\ executed = <<"SLO_COMPLETE">>
    /\ turn_start = NoTurn
    /\ counters = EmptyDict
    /\ clock = Len(phase_context.transition_history)
    /\ checkpoint = NoCheckpoint
    /\ first_prompt = EmptyDict
    /\ journey_brief = JourneyBrief
    /\ EvalIdle
    /\ EmitIdle
    /\ ChatIdle
    /\ ToolIdle
    /\ PhaseIdle

\* one call of a tool handler, logged with the text it returns
CallLoggedTool(m, name, outcome) ==
    /\ pc = "exec"
    /\ mode = m
    /\ name \in get_allowed_tools(mode, current_phase)
    /\ Len(tl_results) < MaxLoggedCalls
    /\ phase_context' = outcome.ctx
    /\ em_queue' = em_queue \o [i \in DOMAIN outcome.queued |-> [type |-> outcome.queued[i]]]
    /\ tl_results' = Append(tl_results, [tool |-> name, result |-> outcome.result])
    /\ UNCHANGED <<mode, has_handler, pc, current_phase, transition_reason, events,
                   executed, turn_start, counters, clock, checkpoint, first_prompt,
                   journey_brief>>
    /\ UNCHANGED <<ev_vars, chat_vars, pm_vars, em_pc, em_produced, em_delivered>>

S_advance_to_next_slo ==
    CallLoggedTool(mode, "advance_to_next_slo", advance_to_next_slo(mode, phase_context))

S_skip_current_slo ==
    CallLoggedTool("understand", "skip_current_slo", skip_current_slo(phase_context))

NextSlo ==
    \/ S_advance_to_next_slo
    \/ S_skip_current_slo

SpecSlo == InitSlo /\ [][NextSlo]_vars

(***************************************************************************)
(* SpecScaffold: the construction loop of Build. The model records rounds  *)
(* with any outcome, sets the scaffold level to any string, verifies the   *)
(* construction and advances to the next SLO                               *)
(***************************************************************************)
\* outcomes passed to record_construction_round
RoundOutcomes == {"constructed", "partial", "stuck", "surrendered"}

\* a level string that is not on the ladder
OffLadderLevel == "extreme"

\* level strings passed to set_scaffold_level (the argument is any str)
LevelArgs == set(ScaffoldLevels) \cup {OffLadderLevel}

\* the tool handler record_construction_round of the Build agent: the round is
\* added, then the scaffold is adjusted; ValueError leaves the handler after
\* the round was added
record_construction_round(ctx, outcome) ==
    LET added == add_construction_round(ctx, outcome)
    IN IF outcome = "constructed"
       THEN IF LevelIndexRaises(added)
            THEN ToolOutcome(added, <<>>, "ValueError")
            ELSE ToolOutcome(exit_special_mode(decrease_scaffold(added)),
                             <<"data.construction_round">>, "Round recorded")
       ELSE IF outcome \in {"stuck", "surrendered"}
       THEN IF LevelIndexRaises(added)
            THEN ToolOutcome(added, <<>>, "ValueError")
            ELSE ToolOutcome(IF outcome = "surrendered"
                             THEN enter_surrender_recovery(increase_scaffold(added))
                             ELSE increase_scaffold(added),
                             <<"data.construction_round">>, "Round recorded")
       ELSE ToolOutcome(added, <<"data.construction_round">>, "Round recorded")

\* the tool handler set_scaffold_level of the Build agent
set_scaffold_level(ctx, level) ==
    ToolOutcome([ctx EXCEPT !.current_scaffold_level = level],
                <<"data.scaffold_level">>, "Scaffold level set")

\* the context on entry to CONSTRUCTION: k SLOs emitted and all selected
ConstructionContext(k) ==
    LET c0 == initialize("build").phase_context
        c1 == EnterPhase([c0 EXCEPT !.anchor_questions_asked = TRUE,
                                    !.anchors_confirmed = TRUE],
                         "build", "ANCHOR_DISCOVERY", "CLASSIFY", "anchors_confirmed", 0)
        c2 == AddSlos("build", c1, k)
        c3 == EnterPhase(mark_slos_selected([c2 EXCEPT !.slos_presented = TRUE], c2.slos).ctx,
                         "build", "CLASSIFY", "SEQUENCE_DESIGN", "slos_selected", 1)
    IN EnterPhase([c3 EXCEPT !.sequences_designed = TRUE],
                  "build", "SEQUENCE_DESIGN", "CONSTRUCTION", "sequence_designed", 2)

InitScaffold ==
    /\ mode = "build"
    /\ has_handler = FALSE
    /\ pc = "exec"
    /\ current_phase = "CONSTRUCTION"
    /\ phase_context \in {ConstructionContext(k) : k \in 1..MaxSelected}
    /\ transition_reason = None
    /\ events = <<>>
    /\ executed = <<"CONSTRUCTION">>
    /\ turn_start = NoTurn
    /\ counters = EmptyDict
    /\ clock = Len(phase_context.transition_history)
    /\ checkpoint = NoCheckpoint
    /\ first_prompt = EmptyDict
    /\ journey_brief = JourneyBrief
    /\ EvalIdle
    /\ EmitIdle
    /\ ChatIdle
    /\ ToolIdle
    /\ PhaseIdle

T_record_construction_round ==
    \E outcome \in RoundOutcomes :
        CallLoggedTool("build", "record_construction_round",
                       record_construction_round(phase_context, outcome))

T_set_scaffold_level ==
    \E level \in LevelArgs :
        CallLoggedTool("build", "set_scaffold_level", set_scaffold_level(phase_context, level))

NextScaffold ==
    \/ T_record_construction_round
    \/ T_set_scaffold_level
    \/ B_mark_construction_verified
    \/ B_advance_to_next_slo_tool
    \/ EndPhase
    \/ BeginPhase

SpecScaffold == InitScaffold /\ [][NextScaffold]_vars

(***************************************************************************)
(* SpecPhase: the PhaseManager of Build mode (grounding and making) on one *)
(* Session, together with the store operations that change its mode and    *)
(* phase                                                                   *)
(***************************************************************************)
\* PhaseManager.MIN_GROUNDING_CONCEPTS
MIN_GROUNDING_CONCEPTS == 2

\* SessionStore.create: the fields of a new Session the PhaseManager reads
CreateSession(m) ==
    [mode |-> m, phase |-> IF m = "build" THEN "grounding" ELSE None,
     has_build_data |-> m = "build",
     grounding_ready |-> FALSE, grounding_concepts |-> <<>>]

\* sum(1 for concept in session.grounding_concepts if concept.sufficient)
sufficient_count(session) ==
    Cardinality({i \in DOMAIN session.grounding_concepts :
                    session.grounding_concepts[i].sufficient})

\* variant: is_grounding_complete that counts every concept
is_grounding_complete_counts_all(session) ==
    IF session.mode # "build" THEN FALSE
    ELSE IF session.grounding_ready THEN TRUE
    ELSE Len(session.grounding_concepts) >= MIN_GROUNDING_CONCEPTS

\* PhaseManager.is_grounding_complete
is_grounding_complete(session) ==
    IF session.mode # "build" THEN FALSE
    ELSE IF session.grounding_ready THEN TRUE
    ELSE sufficient_count(session) >= MIN_GROUNDING_CONCEPTS

\* PhaseManager.can_transition_to_making
can_transition_to_making(session) ==
    IF session.mode # "build" THEN [can |-> FALSE, reason |-> "Not in build mode"]
    ELSE IF session.phase # "grounding" THEN [can |-> FALSE, reason |-> "Already in phase"]
    ELSE IF ~is_grounding_complete(session)
    THEN [can |-> FALSE, reason |-> "Grounding not complete"]
    ELSE [can |-> TRUE, reason |-> "Ready to transition"]

\* PhaseManager.transition_to_making: the session after the call, the result it
\* returns and the events it emits
transition_to_making(session, force) ==
    IF ~force /\ ~can_transition_to_making(session).can
    THEN [session |-> session,
          result |-> [transitioned |-> FALSE, from_phase |-> session.phase,
                      to_phase |-> None,
                      reason |-> can_transition_to_making(session).reason],
          emitted |-> <<>>]
    ELSE [session |-> [session EXCEPT !.phase = "making"],
          result |-> [transitioned |-> TRUE, from_phase |-> "grounding",
                      to_phase |-> "making",
                      reason |-> "Successfully transitioned to Making phase"],
          emitted |-> <<[type |-> "phase.changed", from |-> "grounding", to |-> "making"]>>]

InitPhase ==
    /\ mode = "build"
    /\ has_handler = FALSE
    /\ pc = "created"
    /\ current_phase = None
    /\ phase_context = NoContext
    /\ transition_reason = None
    /\ events = <<>>
    /\ executed = <<>>
    /\ turn_start = NoTurn
    /\ counters = EmptyDict
    /\ clock = 0
    /\ checkpoint = NoCheckpoint
    /\ first_prompt = EmptyDict
    /\ journey_brief = None
    /\ EvalIdle
    /\ EmitIdle
    /\ ChatIdle
    /\ ToolIdle
    /\ pm_session \in {CreateSession(m) : m \in Modes}
    /\ pm_result = <<>>
    /\ pm_events = <<>>

\* a step on the session that is no call of transition_to_making
SessionStep(session) ==
    /\ pm_session' = session
    /\ UNCHANGED <<pm_result, pm_events>>
    /\ UNCHANGED <<agent_vars, ev_vars, emit_vars, chat_vars, tool_vars>>

\* PhaseManager.add_grounding_concept
AddGroundingConcept ==
    /\ Len(pm_session.grounding_concepts) < MaxConcepts
    /\ \E sufficient \in BOOLEAN :
        SessionStep([pm_session EXCEPT
            !.grounding_concepts = Append(@, [sufficient |-> sufficient])])

\* PhaseManager.mark_concept_sufficient for a concept of the session
MarkConceptSufficient ==
    \E i \in DOMAIN pm_session.grounding_concepts :
        SessionStep([pm_session EXCEPT !.grounding_concepts[i].sufficient = TRUE])

\* PhaseManager.mark_grounding_ready
MarkGroundingReady ==
    /\ pm_session.mode = "build"
    /\ SessionStep([pm_session EXCEPT !.grounding_ready = TRUE])

\* SessionStore.update_mode: build_data and the phase are initialised when
\* the session has no build_data yet
UpdateMode ==
    \E m \in Modes :
        SessionStep(IF m = "build" /\ ~pm_session.has_build_data
                    THEN [pm_session EXCEPT
                            !.mode = m, !.has_build_data = TRUE,
                            !.phase = IF @ = None THEN "grounding" ELSE @]
                    ELSE [pm_session EXCEPT !.mode = m])

\* SessionStore.update_mode_data with a BuildModeData
UpdateModeData ==
    SessionStep([pm_session EXCEPT !.has_build_data = TRUE])

\* SessionStore.update_phase
UpdatePhase ==
    \E phase \in {"grounding", "making"} :
        SessionStep([pm_session EXCEPT !.phase = phase])

\* PhaseManager.transition_to_making
TransitionToMaking ==
    \E force \in BOOLEAN :
        LET call == transition_to_making(pm_session, force)
        IN /\ Len(pm_events) + Len(call.emitted) <= MaxTransitions
           /\ pm_session' = call.session
           /\ pm_result' = <<[force |-> force, result |-> call.result]>>
           /\ pm_events' = pm_events \o call.emitted
           /\ UNCHANGED <<agent_vars, ev_vars, emit_vars, chat_vars, tool_vars>>

NextPhase ==
    \/ AddGroundingConcept
    \/ MarkConceptSufficient
    \/ MarkGroundingReady
    \/ UpdateMode
    \/ UpdateModeData
    \/ UpdatePhase
    \/ TransitionToMaking

SpecPhase == InitPhase /\ [][NextPhase]_vars

(***************************************************************************)
(* SpecYield: the engine with the transition step of process_message split *)
(* at its yield. The generator records the transition, yields              *)
(* phase.changed and is suspended there (pc = "yield") until its consumer  *)
(* asks for the next event; only then it assigns current_phase             *)
(***************************************************************************)
\* process_message from the return of the executor to the yield of
\* phase.changed: checkpoint, evaluation, record_transition
YieldPhaseChanged ==
    /\ pc = "exec"
    /\ ~BriefMissing
    /\ LET cp == PhaseCheckpoint(mode, current_phase, phase_context)
       IN \E answer \in BOOLEAN :
          LET approved == handle_checkpoint(has_handler, answer)
              ctx1 == IF cp # None
                      THEN ApplyCheckpoint(mode, cp, phase_context, approved)
                      ELSE phase_context
              ev1 == IF cp # None /\ mode = "research"
                     THEN Append(events, CheckpointEvent(cp)) ELSE events
              r == evaluate_transitions(phase_transitions(mode), current_phase,
                                        ctx1.awaiting_user_input,
                                        TrueConditions(mode, ctx1), transition_reason)
              next_phase == r.next_phase
              back == is_backward_transition(phase_transitions(mode),
                                             current_phase, next_phase)
              reason == IF r.reason # None THEN r.reason ELSE "unknown"
          IN /\ (cp = None \/ ~has_handler) => answer
             /\ next_phase # current_phase
             /\ clock < MaxHistory
             /\ checkpoint' = IF cp # None
                              THEN [id |-> cp, handler_called |-> has_handler,
                                    answer |-> answer, approved |-> approved]
                              ELSE NoCheckpoint
             /\ phase_context' = record_transition(ctx1, mode, current_phase, next_phase,
                                                   reason, back, utcnow(clock))
             /\ events' = Append(ev1, PhaseChanged(value(mode, current_phase),
                                                   value(mode, next_phase), back, r.reason))
             /\ transition_reason' = r.reason
             /\ clock' = clock + 1
             /\ pc' = "yield"
    /\ UNCHANGED <<mode, has_handler, current_phase, executed, turn_start, counters>>
    /\ UNCHANGED first_prompt
    /\ UNCHANGED journey_brief
    /\ UNCHANGED eval_vars

\* process_message resumed after the yield of phase.changed: next_phase is
\* the phase the record just written names
ResumeAfterYield ==
    /\ pc = "yield"
    /\ LET next_phase == PhaseByValue(mode, Last(phase_context.transition_history).to_phase)
       IN /\ current_phase' = next_phase
          /\ phase_context' = increment_visit(phase_context, mode, next_phase)
    /\ transition_reason' = None
    /\ pc' = "loop"
    /\ UNCHANGED <<mode, has_handler, events, executed, turn_start, counters, clock,
                   checkpoint, first_prompt, journey_brief>>
    /\ UNCHANGED eval_vars

\* the consumer's emit raises while the generator is suspended: the loop of
\* process_chat_message is left through its except branch
RaiseAtYield ==
    /\ pc = "yield"
    /\ pc' = "failed"
    /\ UNCHANGED <<mode, has_handler, current_phase, phase_context, transition_reason,
                   events, executed, turn_start, counters, clock, checkpoint,
                   first_prompt, journey_brief>>
    /\ UNCHANGED eval_vars

\* every step of the engine but the transition step, which is split
NextYield ==
    \/ Next /\ ~(pc = "exec" /\ pc' = "loop")
    \/ YieldPhaseChanged
    \/ ResumeAfterYield
    \/ RaiseAtYield

SpecYield == Init /\ [][NextYield]_vars

(***************************************************************************)
(* SpecEval: _evaluate_transitions on bounded transition tables            *)
(***************************************************************************)
\* the phase in which the evaluator is called, and the other phases
EvalPhase == "P0"

EvalTargets == {"P1", "P2"}

\* the condition name of the i-th declared transition
CondName(i) == <<"c1", "c2", "c3", "c4">>[i]

\* transition tables of at most MaxTable entries, in declaration order
EvalTables ==
    UNION {
        {t \in [1..n -> [from_phase : {EvalPhase, "P1"}, to_phase : EvalTargets,
                         condition : {CondName(i) : i \in 1..n},
                         is_backward : BOOLEAN, priority : 0..MaxPriority]] :
            \A i \in 1..n : t[i].condition = CondName(i)}
        : n \in 0..MaxTable}

NotEvaluated == [next_phase |-> None, reason |-> None]

InitEval ==
    /\ mode = "research"
    /\ has_handler = FALSE
    /\ pc = "created"
    /\ current_phase = None
    /\ phase_context = NoContext
    /\ transition_reason = None
    /\ events = <<>>
    /\ executed = <<>>
    /\ turn_start = NoTurn
    /\ counters = EmptyDict
    /\ clock = 0
    /\ checkpoint = NoCheckpoint
    /\ first_prompt = EmptyDict
    /\ journey_brief = None
    /\ ev_table \in EvalTables
    /\ ev_true \in SUBSET {ev_table[i].condition : i \in DOMAIN ev_table}
    /\ ev_awaiting \in BOOLEAN
    /\ ev_result = NotEvaluated
    /\ EmitIdle
    /\ ChatIdle
    /\ ToolIdle
    /\ PhaseIdle

\* one call of _evaluate_transitions with _transition_reason = None before it
Evaluate ==
    /\ ev_result = NotEvaluated
    /\ ev_result' = evaluate_transitions(ev_table, EvalPhase, ev_awaiting, ev_true, None)
    /\ UNCHANGED <<ev_table, ev_true, ev_awaiting>>
    /\ UNCHANGED emit_vars
    /\ UNCHANGED engine_vars

NextEval == Evaluate

SpecEval == InitEval /\ [][NextEval]_vars

(***************************************************************************)
(* SpecEmit: the path of the events of one turn to the outbound channel.   *)
(* Events the executor yields are passed on by process_chat_message as     *)
(* they are yielded; events of tools go through SSEEventEmitter.           *)
(***************************************************************************)
\* the event with the given type produced next in the turn
NewEvent(type) == [type |-> type, seq |-> Len(em_produced) + 1]

InitEmit ==
    /\ mode \in Modes
    /\ has_handler = FALSE
    /\ pc = "created"
    /\ current_phase = None
    /\ phase_context = NoContext
    /\ transition_reason = None
    /\ events = <<>>
    /\ executed = <<>>
    /\ turn_start = NoTurn
    /\ counters = EmptyDict
    /\ clock = 0
    /\ checkpoint = NoCheckpoint
    /\ first_prompt = EmptyDict
    /\ journey_brief = None
    /\ EvalIdle
    /\ em_pc = "exec"
    /\ em_produced = <<>>
    /\ em_queue = <<>>
    /\ em_delivered = <<>>
    /\ ChatIdle
    /\ ToolIdle
    /\ PhaseIdle

\* the executor yields agent_speaking; process_message yields it on and
\* process_chat_message awaits emit_event(event) before asking for the next
EmitSpeaking ==
    /\ em_pc = "exec"
    /\ Len(em_produced) < MaxEvents
    /\ em_produced' = Append(em_produced, NewEvent("agent.speaking"))
    /\ em_delivered' = Append(em_delivered, NewEvent("agent.speaking"))
    /\ UNCHANGED <<em_pc, em_queue>>
    /\ UNCHANGED <<engine_vars, ev_vars>>

\* a tool handler runs while the executor waits: agent.emitter.emit_sync(event)
EmitSync ==
    /\ em_pc = "exec"
    /\ Len(em_produced) < MaxEvents
    /\ em_produced' = Append(em_produced, NewEvent("data"))
    /\ em_queue' = Append(em_queue, NewEvent("data"))
    /\ UNCHANGED <<em_pc, em_delivered>>
    /\ UNCHANGED <<engine_vars, ev_vars>>

\* variant: flush sends the queued events and leaves them in the queue
Flush_keeps_queue ==
    /\ em_pc = "exec"
    /\ em_delivered' = em_delivered \o em_queue
    /\ em_pc' = "evaluate"
    /\ UNCHANGED <<em_produced, em_queue>>
    /\ UNCHANGED <<engine_vars, ev_vars>>

\* the executor has returned: await self.emitter.flush()
Flush ==
    /\ em_pc = "exec"
    /\ em_delivered' = em_delivered \o em_queue
    /\ em_queue' = <<>>
    /\ em_pc' = "evaluate"
    /\ UNCHANGED em_produced
    /\ UNCHANGED <<engine_vars, ev_vars>>

\* a transition is taken: phase.changed is yielded and the loop goes on
EmitPhaseChanged ==
    /\ em_pc = "evaluate"
    /\ Len(em_produced) < MaxEvents
    /\ em_produced' = Append(em_produced, NewEvent("phase.changed"))
    /\ em_delivered' = Append(em_delivered, NewEvent("phase.changed"))
    /\ em_pc' = "exec"
    /\ UNCHANGED em_queue
    /\ UNCHANGED <<engine_vars, ev_vars>>

\* the turn ends: agent.awaiting_input after a break, or agent.complete
EmitTurnEnd ==
    /\ em_pc = "evaluate"
    /\ \E type \in {"agent.awaiting_input", "agent.complete"} :
        /\ em_produced' = Append(em_produced, NewEvent(type))
        /\ em_delivered' = Append(em_delivered, NewEvent(type))
    /\ em_pc' = "ended"
    /\ UNCHANGED em_queue
    /\ UNCHANGED <<engine_vars, ev_vars>>

\* the executor raises: process_message ends before flush, and the agent with
\* its emitter is dropped at the end of the turn
EmitRaiseInPhase ==
    /\ em_pc = "exec"
    /\ em_pc' = "failed"
    /\ UNCHANGED <<em_produced, em_queue, em_delivered>>
    /\ UNCHANGED <<engine_vars, ev_vars>>

\* the channel's emit raises inside flush: the events before the failing one
\* are out, _queue.clear() is not reached and the exception ends the turn
FlushRaises ==
    /\ em_pc = "exec"
    /\ \E k \in 1..Len(em_queue) :
            em_delivered' = em_delivered \o SubSeq(em_queue, 1, k - 1)
    /\ em_pc' = "failed"
    /\ UNCHANGED <<em_produced, em_queue>>
    /\ UNCHANGED <<engine_vars, ev_vars>>

NextEmit ==
    \/ EmitSpeaking
    \/ EmitSync
    \/ Flush
    \/ EmitPhaseChanged
    \/ EmitTurnEnd
    \/ EmitRaiseInPhase
    \/ FlushRaises

SpecEmit == InitEmit /\ [][NextEmit]_vars

(***************************************************************************)
(* Properties of the transition evaluator (SpecEval)                       *)
(***************************************************************************)
Evaluated == ev_result # NotEvaluated

\* declared transitions of the evaluated phase whose condition is true
TrueIdx == {i \in DOMAIN ev_table :
                ev_table[i].from_phase = EvalPhase /\ ev_table[i].condition \in ev_true}

\* a transition is enabled when its condition is true and the latch does not
\* block evaluation
EnabledIdx == IF ev_awaiting THEN {} ELSE TrueIdx

\* declared transition i is tried before declared transition j
TriedBefore(i, j) ==
    \/ ev_table[i].is_backward /\ ~ev_table[j].is_backward
    \/ /\ ev_table[i].is_backward = ev_table[j].is_backward
       /\ \/ ev_table[i].priority > ev_table[j].priority
          \/ ev_table[i].priority = ev_table[j].priority /\ i < j

\* C1: whenever awaiting_user_input is true, _evaluate_transitions returns the
\* current phase and leaves _transition_reason unset, whichever conditions are
\* true.
C1_LatchBlocksEvaluation ==
    (Evaluated /\ ev_awaiting) =>
        /\ ev_result.next_phase = EvalPhase
        /\ ev_result.reason = None

\* C1 witness: an evaluation under the latch with a true condition on a
\* transition leaving the current phase
C1_Witness ==
    /\ Evaluated
    /\ ev_awaiting
    /\ TrueIdx # {}
    /\ ev_result.next_phase = EvalPhase

\* C3: when a backward and a forward transition from the current phase are
\* both enabled, _evaluate_transitions returns the target of an enabled
\* backward transition, whatever the declared priorities are.
C3_BackwardBeatsForward ==
    (/\ Evaluated
     /\ \E i \in EnabledIdx : ev_table[i].is_backward
     /\ \E j \in EnabledIdx : ~ev_table[j].is_backward) =>
        \E i \in EnabledIdx :
            /\ ev_table[i].is_backward
            /\ ev_result.next_phase = ev_table[i].to_phase
            /\ ev_result.reason = ev_table[i].condition

\* C3 witness: the backward transition is declared after a forward one of
\* higher priority with another target, and its target is returned
C3_Witness ==
    /\ Evaluated
    /\ \E i, j \in EnabledIdx :
        /\ ev_table[i].is_backward /\ ~ev_table[j].is_backward
        /\ j < i
        /\ ev_table[j].priority > ev_table[i].priority
        /\ ev_table[j].to_phase # ev_table[i].to_phase
        /\ ev_result.next_phase = ev_table[i].to_phase

\* C4: the transition taken is the enabled transition that comes first when
\* backward ones precede forward ones, and among transitions of equal
\* is_backward the higher priority precedes, equal priorities in declaration
\* order; in particular among enabled transitions of equal is_backward the
\* highest priority, first declared one wins.
C4_PriorityThenDeclarationOrder ==
    (Evaluated /\ EnabledIdx # {}) =>
        \E k \in EnabledIdx :
            /\ \A j \in EnabledIdx \ {k} : TriedBefore(k, j)
            /\ ev_result.next_phase = ev_table[k].to_phase
            /\ ev_result.reason = ev_table[k].condition

\* C4 witness: two enabled transitions of equal is_backward, the one of higher
\* priority declared second and taken
C4_Witness ==
    /\ Evaluated
    /\ \E i, j \in EnabledIdx :
        /\ i < j
        /\ ev_table[i].is_backward = ev_table[j].is_backward
        /\ ev_table[j].priority > ev_table[i].priority
        /\ ev_table[j].to_phase # ev_table[i].to_phase
        /\ ev_result.reason = ev_table[j].condition
        /\ ev_result.next_phase = ev_table[j].to_phase

(***************************************************************************)
(* Properties of the engine (Spec)                                         *)
(***************************************************************************)
Constructed == pc # "created"

Latch == Constructed /\ phase_context.awaiting_user_input

\* get_state of the running agent, restored into a fresh agent directly and
\* through save_agent_state / get_agent_state_for_restore
Serialized == get_state(mode, current_phase, phase_context)

RestoredDirect == restore_state(mode, Serialized)

RestoredViaSession ==
    restore_state(mode, get_agent_state_for_restore(save_agent_state(Serialized)))

\* number of agent.complete events yielded so far in the turn
Completions == Cardinality({i \in DOMAIN events : events[i] = agent_complete})

\* the contexts on which _evaluate_transitions can run when the executing phase
\* ends: the context as the executor left it, after the phase checkpoint
EvalContexts ==
    LET cp == PhaseCheckpoint(mode, current_phase, phase_context)
    IN IF cp = None THEN {phase_context}
       ELSE {ApplyCheckpoint(mode, cp, phase_context,
                             handle_checkpoint(has_handler, answer)) :
                answer \in BOOLEAN}

\* declared transitions leaving the current phase whose condition is true on ctx
OutgoingTrue(ctx) ==
    {i \in DOMAIN phase_transitions(mode) :
        /\ phase_transitions(mode)[i].from_phase = current_phase
        /\ evaluate_transition_condition(mode, ctx, phase_transitions(mode)[i].condition)}

NoneEnabled(ctx) == ctx.awaiting_user_input \/ OutgoingTrue(ctx) = {}

\* the step in which the executor returns and transitions are evaluated
\* (an executor that raises instead leads to "failed")
PhaseEnds == pc = "exec" /\ pc' \in {"loop", "done"}

\* C2: if the executor sets awaiting_user_input during a phase execution, the
\* turn takes no transition afterwards and ends in that phase with an
\* awaiting-input event, whatever conditions are true; the agent clears the
\* latch only on entry of the next process_message call, so that it is clear
\* whenever the loop is about to run an executor or has evaluated a transition.
C2_LatchEndsTurn ==
    /\ [][(PhaseEnds /\ phase_context.awaiting_user_input) =>
            /\ pc' = "done"
            /\ current_phase' = current_phase
            /\ phase_context' = phase_context
            /\ Last(events') = agent_awaiting_input(value(mode, current_phase))]_vars
    \* (a step to "idle" that drops the latch replaces the agent object by a
    \* restored one; what restore_state does to the latch is the subject of C9)
    /\ [][(Latch /\ pc' # "idle" /\ ~phase_context'.awaiting_user_input) =>
            (pc = "idle" /\ pc' = "loop" /\ events' = <<>> /\ executed' = <<>>)]_vars
    /\ [](pc = "loop" => ~phase_context.awaiting_user_input)

\* C2 witness: a turn ended under the latch although a condition of a
\* transition leaving the phase is true
C2_Witness ==
    /\ pc = "done"
    /\ phase_context.awaiting_user_input
    /\ OutgoingTrue(phase_context) # {}
    /\ Last(events) = agent_awaiting_input(value(mode, current_phase))

\* C5: in every state reached by initialize, process_message and save/restore
\* between turns, phase_visits[current_phase] >= 1.
C5_CurrentPhaseVisited ==
    Constructed => get_visit_count(phase_context, mode, current_phase) >= 1

\* C5 witness: an agent restored from a session that has left the initial phase
C5_Witness ==
    /\ pc = "idle"
    /\ events = <<>>
    /\ counters # EmptyDict
    /\ current_phase # initial_phase(mode)
    /\ get_visit_count(phase_context, mode, current_phase) >= 1

C7_TerminalStopsTurn ==
    /\ [](\A m \in Modes : \A i \in DOMAIN phase_transitions(m) :
            phase_transitions(m)[i].from_phase # "COMPLETE")
    /\ [](~InList("COMPLETE", executed))
    /\ [][(pc = "loop" /\ current_phase = "COMPLETE") =>
            /\ pc' = "done"
            /\ events' = Append(events, agent_complete)
            /\ current_phase' = current_phase
            /\ phase_context' = phase_context
            /\ executed' = executed]_vars
    /\ [](Completions <= 1)
    /\ []((pc = "done" /\ current_phase = "COMPLETE") =>
            (Completions = 1 /\ Last(events) = agent_complete))
    /\ []((pc = "done" /\ current_phase # "COMPLETE") => Completions = 0)

\* C7 witness: a turn that reached the terminal phase through a transition
C7_Witness ==
    /\ pc = "done"
    /\ current_phase = "COMPLETE"
    /\ turn_start.current_phase # "COMPLETE"
    /\ Len(executed) >= 1
    /\ Last(events) = agent_complete

C9_LatchSurvivesRestore ==
    Latch =>
        /\ RestoredDirect.phase_context.awaiting_user_input
        /\ \A holds \in SUBSET TrueConditions(mode, RestoredDirect.phase_context) :
            evaluate_transitions(phase_transitions(mode), RestoredDirect.current_phase,
                                 RestoredDirect.phase_context.awaiting_user_input,
                                 holds, None).next_phase = current_phase

\* C10: a turn whose executed phase has no enabled outgoing transition runs
\* that phase once and stops, leaving current_phase, phase_visits and
\* transition_history as they were and ending with awaiting_input for that
\* phase; once a condition is true the phase execution ends with the move to
\* the target, and after the first move phase_visits holds 1 for the initial
\* phase and 1 for the target, transition_history one record.
C10_StayThenMove ==
    /\ [][(PhaseEnds /\ \A c \in EvalContexts : NoneEnabled(c)) =>
            /\ pc' = "done"
            /\ current_phase' = current_phase
            /\ phase_context'.phase_visits = phase_context.phase_visits
            /\ phase_context'.transition_history = phase_context.transition_history
            /\ executed' = executed
            /\ Last(events') = agent_awaiting_input(value(mode, current_phase))]_vars
    /\ []((pc = "done" /\ executed = <<current_phase>>) =>
            /\ turn_start.current_phase = current_phase
            /\ turn_start.phase_visits = phase_context.phase_visits
            /\ turn_start.history_len = Len(phase_context.transition_history))
    /\ [][(PhaseEnds /\ \A c \in EvalContexts : ~NoneEnabled(c)) =>
            /\ pc' = "loop"
            /\ \E c \in EvalContexts : \E i \in OutgoingTrue(c) :
                    current_phase' = phase_transitions(mode)[i].to_phase
            /\ Len(phase_context'.transition_history) =
                    Len(phase_context.transition_history) + 1]_vars
    /\ []((Constructed /\ Len(phase_context.transition_history) = 1) =>
            /\ phase_context.transition_history[1].from_phase =
                    value(mode, initial_phase(mode))
            /\ phase_context.phase_visits =
                    (value(mode, initial_phase(mode)) :> 1)
                    @@ (phase_context.transition_history[1].to_phase :> 1))

\* C10 witness: an earlier turn stayed in the initial phase and was saved, and
\* the present turn made the first move
C10_Witness ==
    /\ pc = "done"
    /\ counters # EmptyDict
    /\ counters.current_phase = value(mode, initial_phase(mode))
    /\ counters.transition_history = <<>>
    /\ turn_start.history_len = 0
    /\ Len(phase_context.transition_history) = 1
    /\ get_visit_count(phase_context, mode, current_phase) = 1

\* declared transition i of the agent's table is tried before declared
\* transition j: backward first, then the higher priority, then declaration order
TableBefore(i, j) ==
    LET t == phase_transitions(mode)
    IN \/ t[i].is_backward /\ ~t[j].is_backward
       \/ /\ t[i].is_backward = t[j].is_backward
          /\ \/ t[i].priority > t[j].priority
             \/ t[i].priority = t[j].priority /\ i < j

\* the step in which the loop takes a transition
TransitionTaken == PhaseEnds /\ pc' = "loop"

\* C11: every TransitionRecord appended by the loop describes the transition
\* that fired: its is_backward is the flag of the transition selected by
\* _evaluate_transitions, its reason that transition's condition name, and a
\* taken backward transition is recorded with is_backward = TRUE.
C11_RecordDescribesFired ==
    [][TransitionTaken =>
        LET t == phase_transitions(mode)
            rec == Last(phase_context'.transition_history)
        IN /\ phase_context'.transition_history =
                    Append(phase_context.transition_history, rec)
           /\ \E c \in EvalContexts : \E k \in OutgoingTrue(c) :
                /\ \A j \in OutgoingTrue(c) \ {k} : TableBefore(k, j)
                /\ current_phase' = t[k].to_phase
                /\ rec.from_phase = value(mode, t[k].from_phase)
                /\ rec.to_phase = value(mode, t[k].to_phase)
                /\ rec.reason = t[k].condition
                /\ rec.is_backward = t[k].is_backward]_vars

\* C11 witness: the last record is that of a backward transition taken while
\* the loop goes on
C11_Witness ==
    /\ pc = "loop"
    /\ Len(phase_context.transition_history) >= 1
    /\ Last(phase_context.transition_history).is_backward
    /\ Last(phase_context.transition_history).to_phase = value(mode, current_phase)
    /\ \E i \in DOMAIN phase_transitions(mode) :
        /\ phase_transitions(mode)[i].is_backward
        /\ phase_transitions(mode)[i].condition =
                Last(phase_context.transition_history).reason

\* the step in which the executor's exception leaves process_message
ExecutorRaises == pc = "exec" /\ pc' = "failed"

\* the phase whose execution is under way or has just ended
ExecutingPhase == Last(executed)

\* C12: when the phase executor raises, the exception leaves process_message
\* with current_phase and phase_visits as they were when the execution of
\* that phase began, no TransitionRecord appended and no event yielded for the
\* failed step, the phase is not executed again in that turn, and what the
\* tools wrote to the context before the failure is still in it.
C12_RaisePropagates ==
    /\ [][pc = "exec" =>
            /\ current_phase = ExecutingPhase
            /\ (pc' \in {"exec", "failed"} =>
                  /\ current_phase' = current_phase
                  /\ phase_context'.phase_visits = phase_context.phase_visits
                  /\ phase_context'.transition_history =
                        phase_context.transition_history)]_vars
    /\ [][ExecutorRaises =>
            /\ phase_context' = phase_context
            /\ transition_reason' = transition_reason
            /\ events' = events
            /\ counters' = counters]_vars
    /\ [][pc = "failed" => pc' = "errored" /\ executed' = executed]_vars
    /\ [][(pc = "loop" /\ pc' = "exec") =>
            (executed = <<>> \/ Last(executed) # current_phase)]_vars

\* C12 witness: the executor of the second phase of a turn has raised after a
\* tool of that phase set the latch
C12_Witness ==
    /\ pc = "failed"
    /\ Len(executed) >= 2
    /\ current_phase = ExecutingPhase
    /\ phase_context.awaiting_user_input
    /\ Len(phase_context.transition_history) = turn_start.history_len + 1

\* number of error events among the events of the turn
ErrorEvents == Cardinality({i \in DOMAIN events : events[i].type = "error"})

\* C13: a turn that fails in the chat pipeline emits exactly one error event,
\* and the next message of the session starts in the phase whose executor
\* failed, also when transitions were taken earlier in the failed turn.
C13_FailedTurnKeepsPhase ==
    /\ [](pc = "errored" => ErrorEvents = 1)
    /\ [](pc \notin {"errored", "created"} => ErrorEvents = 0)
    /\ [][(pc = "errored" /\ pc' = "idle") => current_phase' = ExecutingPhase]_vars

\* the approval flags of the context
ApprovalFlags(m, ctx) ==
    CASE m = "research" -> <<ctx.question_tree_approved>>
      [] m = "understand" -> <<ctx.session_configured, ctx.slos_confirmed,
                               ctx.selected_slo_ids>>
      [] m = "build" -> <<ctx.anchors_confirmed, ctx.slos_confirmed,
                          ctx.selected_slo_ids>>

\* C14: when awaiting_user_input is true at the end of a phase execution, the
\* gate of that execution requests no checkpoint: the handler is not called,
\* no checkpoint event is yielded and no approval flag changes.
C14_LatchSkipsCheckpoint ==
    [][(PhaseEnds /\ phase_context.awaiting_user_input) =>
        /\ checkpoint' = NoCheckpoint
        /\ ApprovalFlags(mode, phase_context') = ApprovalFlags(mode, phase_context)
        /\ events' = Append(events, agent_awaiting_input(value(mode, current_phase)))
        /\ pc' = "done"]_vars

\* C14 witness: a phase whose checkpoint condition holds has ended with the
\* latch set
C14_Witness ==
    /\ pc = "done"
    /\ phase_context.awaiting_user_input
    /\ checkpoint = NoCheckpoint
    /\ PhaseCheckpoint_no_latch_check(mode, current_phase, phase_context) # None

\* C15: a checkpoint is a blocking gate: when the response to the checkpoint of
\* a phase execution has approved = FALSE, no transition out of that phase is
\* taken.
C15_DeniedCheckpointBlocks ==
    [][(PhaseEnds /\ checkpoint'.id # None /\ ~checkpoint'.approved) =>
        (pc' = "done" /\ current_phase' = current_phase)]_vars

\* C16: without a handler every requested checkpoint is answered in the same
\* step with approved = TRUE and nothing is asked; with a handler the response
\* is the handler's answer.
C16_HandlerOrAutoApprove ==
    /\ [](checkpoint.id # None =>
            /\ checkpoint.handler_called = has_handler
            /\ ~has_handler => checkpoint.approved
            /\ has_handler => checkpoint.approved = checkpoint.answer)
    /\ [][PhaseEnds =>
            (checkpoint'.id = PhaseCheckpoint(mode, current_phase, phase_context))]_vars

\* C16 witness: a checkpoint was auto-approved without a handler and the loop
\* went on in the same step
C16_Witness ==
    /\ ~has_handler
    /\ checkpoint.id # None
    /\ ~checkpoint.handler_called
    /\ checkpoint.approved
    /\ pc = "loop"

\* C17: whenever the loop is about to execute a phase whose visit count is
\* greater than 1, the first event it yields is a re-entry notice that names the
\* phase and the reason of the backward transition that caused the re-entry,
\* never an empty trigger; the executor's events come after it.
C17_ReentryNoticeNamesTrigger ==
    [][(pc = "loop" /\ pc' = "exec"
            /\ get_visit_count(phase_context, mode, current_phase) > 1) =>
        LET entry == Last(phase_context.transition_history)
        IN /\ Len(events') = Len(events) + 2
           /\ events'[Len(events) + 2] = ExecutingNotice(value(mode, current_phase))
           /\ events'[Len(events) + 1].type = "agent.thinking"
           /\ events'[Len(events) + 1].kind = "returning"
           /\ events'[Len(events) + 1].phase = value(mode, current_phase)
           /\ events'[Len(events) + 1].trigger # None
           /\ entry.to_phase = value(mode, current_phase)
           /\ entry.is_backward
           /\ events'[Len(events) + 1].trigger = entry.reason]_vars

\* C18: for every phase that is entered more than once, the prompt selected
\* for a visit with visit count > 1 differs from the prompt selected when the
\* phase was first visited.
C18_ReentryPromptDiffers ==
    [][(pc = "loop" /\ pc' = "exec"
            /\ get_visit_count(phase_context, mode, current_phase) > 1
            /\ value(mode, current_phase) \in DOMAIN first_prompt) =>
        get_phase_prompt(mode, phase_context, current_phase,
                         get_visit_count(phase_context, mode, current_phase))
            # first_prompt[value(mode, current_phase)]]_vars

\* C19: the display events of a turn reach the outbound channel in the order
\* of their production: a data event of a tool is delivered before every
\* speaking event produced after it, markers at their production position.
C19_DeliveredInProductionOrder ==
    /\ \A i, j \in DOMAIN em_delivered :
            i < j => em_delivered[i].seq < em_delivered[j].seq
    /\ em_pc = "ended" => em_delivered = em_produced

\* the session holds a persisted current_phase
Persisted == counters # EmptyDict /\ counters.current_phase # None

\* the step in which get_or_create_agent builds the agent of a turn
Startup == pc \in {"created", "idle", "errored"} /\ pc' = "idle"

\* C20: get_or_create_agent restores the agent if and only if the session holds
\* a persisted current_phase and initialises it otherwise; once a turn has
\* been saved the session stays persisted, so every later turn restores the
\* saved phase, visit counts and transition history and none re-initialises.
C20_RestoreIffPersisted ==
    /\ [][Startup =>
            IF Persisted
            THEN /\ value(mode, current_phase') = counters.current_phase
                 /\ phase_context'.phase_visits = counters.phase_context.phase_visits
                 /\ Len(phase_context'.transition_history) =
                        Len(counters.transition_history)
                 /\ \A i \in DOMAIN counters.transition_history :
                        /\ phase_context'.transition_history[i].from_phase =
                                counters.transition_history[i].fromPhase
                        /\ phase_context'.transition_history[i].to_phase =
                                counters.transition_history[i].toPhase
            ELSE /\ current_phase' = initial_phase(mode)
                 /\ phase_context'.phase_visits =
                        DictSet(EmptyDict, value(mode, initial_phase(mode)), 1)
                 /\ phase_context'.transition_history = <<>>]_vars
    /\ [][(pc = "done" /\ pc' = "idle") =>
            /\ Persisted'
            /\ counters'.current_phase = value(mode, current_phase)
            /\ counters'.phase_context.phase_visits = phase_context.phase_visits
            /\ Len(counters'.transition_history) =
                    Len(phase_context.transition_history)]_vars
    /\ [][Persisted => (Persisted' /\ (pc' # "idle" => counters' = counters))]_vars

\* C20 witness: a turn that took transitions was saved and the agent of the
\* next turn has been restored in the saved phase with its visits and history
C20_Witness ==
    /\ pc = "idle"
    /\ turn_start = NoTurn
    /\ Persisted
    /\ current_phase # initial_phase(mode)
    /\ Len(phase_context.transition_history) >= 2
    /\ \E v \in DOMAIN phase_context.phase_visits : phase_context.phase_visits[v] > 1

\* C21: the agent returned by get_or_create_agent is ready in the fresh and in
\* the restored case: current_phase, phase_context and journey_brief are set,
\* so that no executor of the next process_message meets a missing brief.
C21_AgentReady ==
    /\ pc = "idle" =>
        /\ current_phase # None
        /\ phase_context # NoContext
        /\ journey_brief = JourneyBrief
    /\ pc = "exec" => ~BriefMissing

\* C22: restoring from a persisted state whose current_phase names no phase of
\* the agent's enumeration fails with an error; the agent is never left ready in
\* the initial phase (or in any phase) and the failure is reported
UnknownPersisted ==
    LET v == DictGet(counters, "current_phase", None)
    IN v # None /\ v \notin PhaseValues(mode)

C22_UnknownPhaseFails ==
    /\ UnknownPersisted =>
        /\ pc \in {"created", "errored"}
        /\ current_phase = None
        /\ pc = "errored" => events = <<error_event("PROCESSING_ERROR")>>
    /\ (~UnknownPersisted /\ pc # "created") =>
        /\ pc = "idle"
        /\ current_phase \in DOMAIN Phase(mode)

C22_Witness ==
    /\ UnknownPersisted
    /\ pc = "errored"
    /\ counters.current_phase \in PersistedPhaseValues \ {UnknownPhaseValue}

\* C23: in each declared graph exactly one phase is initial and exactly one is
\* terminal, the terminal phase has no outgoing transition, every other phase
\* has a forward transition, and every phase has a path of declared
\* transitions to the terminal phase
Declared(m) == {phase_transitions(m)[i] : i \in DOMAIN phase_transitions(m)}

Outgoing(m, p) == {t \in Declared(m) : t.from_phase = p}

\* phases that no forward transition enters
Sources(m) ==
    {p \in DOMAIN Phase(m) :
        ~\E t \in Declared(m) : t.to_phase = p /\ ~t.is_backward}

\* phases that no transition leaves
Terminals(m) == {p \in DOMAIN Phase(m) : Outgoing(m, p) = {}}

RECURSIVE Reachable(_, _)
Reachable(m, S) ==
    LET S2 == S \cup {t.to_phase : t \in {u \in Declared(m) : u.from_phase \in S}}
    IN IF S2 = S THEN S ELSE Reachable(m, S2)

C23_GraphWellFormed ==
    /\ \A t \in Declared(mode) : {t.from_phase, t.to_phase} \subseteq DOMAIN Phase(mode)
    /\ Sources(mode) = {initial_phase(mode)}
    /\ Terminals(mode) = {complete_phase(mode)}
    /\ \A p \in DOMAIN Phase(mode) \ {complete_phase(mode)} :
          \E t \in Outgoing(mode, p) : ~t.is_backward
    /\ \A p \in DOMAIN Phase(mode) : complete_phase(mode) \in Reachable(mode, {p})
    /\ current_phase # None =>
          /\ current_phase \in Reachable(mode, {initial_phase(mode)})
          /\ complete_phase(mode) \in Reachable(mode, {current_phase})

C23_Witness ==
    /\ pc = "idle"
    /\ mode = "build"
    /\ current_phase = "CONSOLIDATION"
    /\ Outgoing(mode, current_phase) # {}
    /\ complete_phase(mode) \in Reachable(mode, {current_phase})

\* C24: at most one turn is in flight per session, and no turn's saved state
\* is overwritten by a turn that started from an older state: the stored
\* session holds every turn that was saved
C24_OneTurnInFlight ==
    /\ Cardinality({t \in DOMAIN ch_pc : ch_pc[t] = "running"}) <= 1
    /\ \A t \in DOMAIN ch_pc : ch_pc[t] = "saved" => InList(t, ch_store)

\* C25: every turn terminates: once process_message has entered its loop, the
\* call ends, at the terminal phase or at a phase that declines to transition
C25_TurnTerminates == (pc = "loop") ~> (pc = "done")

\* C26: transition_history is append-only over the life of a session. Within a
\* turn and across persist and restore the history before a step is a prefix of
\* the history after it; the persisted history only grows, is always a prefix
\* of the agent's history, and a restore after a turn that was not persisted
\* yields exactly the persisted records
IsPrefix(s, t) == Len(s) <= Len(t) /\ \A i \in DOMAIN s : t[i] = s[i]

History == IF phase_context = NoContext THEN <<>> ELSE phase_context.transition_history

PersistedHistory ==
    restore_transition_history(DictGet(counters, "transition_history", <<>>))

NextPhaseOf(phase, ctx) ==
    evaluate_transitions(phase_transitions(mode), phase, ctx.awaiting_user_input,
                         TrueConditions(mode, ctx), None).next_phase

C27_RestoreSelectsSamePhase ==
    Constructed =>
        NextPhaseOf(RestoredViaSession.current_phase, RestoredViaSession.phase_context)
            = NextPhaseOf(current_phase, phase_context)

\* C28: while awaiting_user_input is true, emit_session_config and
\* mark_slos_selected (Understand) and mark_anchors_confirmed and
\* mark_slos_selected (Build) return an error result and change nothing:
\* the context keeps every value and no event is queued
ToolCalled == Len(tl_results') = Len(tl_results) + 1

C28_GuardedToolsRefuse ==
    [][(ToolCalled /\ phase_context.awaiting_user_input) =>
        /\ Last(tl_results').result = "ERROR"
        /\ phase_context' = phase_context
        /\ em_queue' = em_queue]_vars

C28_Witness ==
    /\ mode = "understand"
    /\ current_phase = "CLASSIFY"
    /\ phase_context.awaiting_user_input
    /\ Len(tl_results) = MaxCalls
    /\ \A i \in DOMAIN tl_results :
          tl_results[i] = [tool |-> "mark_slos_selected", result |-> "ERROR"]
    /\ phase_context.slos # <<>>
    /\ ~phase_context.slos_confirmed
    /\ phase_context.selected_slo_ids = <<>>
    /\ em_queue = <<>>

\* C29: a phase execution of SLO_COMPLETE that ends with the latch false always
\* transitions: in Understand to CALIBRATE when some selected SLO is neither
\* completed nor skipped and otherwise to COMPLETE, in Build to CONSTRUCTION
\* and otherwise to CONSOLIDATION; exactly one of next_slo_available and
\* all_slos_complete holds in every state
SloAgent == mode \in {"understand", "build"} /\ Constructed

SomeSloOpen ==
    \E i \in DOMAIN phase_context.selected_slo_ids :
        /\ ~InList(phase_context.selected_slo_ids[i], phase_context.completed_slo_ids)
        /\ ~InList(phase_context.selected_slo_ids[i], phase_context.skipped_slo_ids)

SloConditions == TrueConditions(mode, phase_context) \cap {"next_slo_available", "all_slos_complete"}

SloCompleteTarget ==
    CASE mode = "understand" -> IF SomeSloOpen THEN "CALIBRATE" ELSE "COMPLETE"
      [] mode = "build" -> IF SomeSloOpen THEN "CONSTRUCTION" ELSE "CONSOLIDATION"

C29_SloCompleteAlwaysMoves ==
    /\ [](SloAgent => Cardinality(SloConditions) = 1)
    /\ [](SloAgent => (SomeSloOpen <=> "next_slo_available" \in SloConditions))
    /\ [][(/\ SloAgent
           /\ PhaseEnds
           /\ current_phase = "SLO_COMPLETE"
           /\ ~phase_context.awaiting_user_input)
          => /\ pc' = "loop"
             /\ current_phase' = SloCompleteTarget
             /\ Last(phase_context'.transition_history).to_phase
                    = value(mode, SloCompleteTarget)]_vars

C29_Witness ==
    /\ mode = "understand"
    /\ pc = "loop"
    /\ current_phase = "COMPLETE"
    /\ Last(phase_context.transition_history).from_phase = "slo_complete"
    /\ phase_context.skipped_slo_ids # <<>>
    /\ ~SomeSloOpen

\* C30: in Understand DIAGNOSE -> SLO_COMPLETE is enabled exactly when a
\* current SLO exists and, for it, total_rounds >= 7, each of vocabulary,
\* mental_model, practical_grasp and boundary_conditions has at least 2
\* rounds, consecutive_passes >= 3, transfer_passes >= 2 and no facet has
\* status missing; the transition is never taken when one of these fails
MasteryReached ==
    LET id == get_current_slo(phase_context)
    IN /\ id # None
       /\ id \in DOMAIN phase_context.slo_counters
       /\ id \in DOMAIN phase_context.knowledge_states
       /\ phase_context.slo_counters[id].total_rounds >= 7
       /\ \A f \in {"vocabulary", "mental_model", "practical_grasp", "boundary_conditions"} :
             phase_context.slo_counters[id].facet_rounds[f] >= 2
       /\ phase_context.slo_counters[id].consecutive_passes >= 3
       /\ phase_context.slo_counters[id].transfer_passes >= 2
       /\ \A f \in DOMAIN phase_context.knowledge_states[id] :
             phase_context.knowledge_states[id][f].status # "missing"

DiagnoseToSloComplete ==
    \E i \in DOMAIN phase_transitions(mode) :
        /\ phase_transitions(mode)[i].from_phase = "DIAGNOSE"
        /\ phase_transitions(mode)[i].to_phase = "SLO_COMPLETE"
        /\ evaluate_transition_condition(mode, phase_context,
                                         phase_transitions(mode)[i].condition)

C30_MasteryGate ==
    /\ []((mode = "understand" /\ Constructed) => (DiagnoseToSloComplete <=> MasteryReached))
    /\ [][(mode = "understand" /\ current_phase = "DIAGNOSE" /\ PhaseEnds)
            => /\ current_phase' = "SLO_COMPLETE" => MasteryReached
               /\ (MasteryReached /\ ~phase_context.awaiting_user_input)
                    => current_phase' = "SLO_COMPLETE"]_vars

C30_Witness ==
    /\ mode = "understand"
    /\ current_phase = "SLO_COMPLETE"
    /\ pc = "loop"
    /\ Last(phase_context.transition_history).reason = "mastery_criteria_met"
    /\ get_current_counters(phase_context).total_rounds = MaxRounds
    /\ get_current_counters(phase_context).consecutive_passes = 3
    /\ get_current_counters(phase_context).transfer_passes = 2
    /\ get_current_knowledge_state(phase_context)["vocabulary"].status = "solid"

\* C31: advance_to_next_slo marks the current SLO completed, adding it to
\* completed_slo_ids at most once, then moves current_slo_index to the first
\* selected SLO neither completed nor skipped and returns true, or returns
\* false and leaves the index unchanged when none remains; called repeatedly
\* on n selected SLOs it visits them in selection order and the n-th call
\* returns false
AdvanceCalled ==
    /\ tl_results' # tl_results
    /\ Last(tl_results').tool = "advance_to_next_slo"

\* the indexes (from 1) of the selected ids neither completed nor skipped
OpenAfter(ctx) ==
    {i \in DOMAIN ctx.selected_slo_ids :
        /\ ctx.selected_slo_ids[i] \notin set(ctx.completed_slo_ids)
        /\ ctx.selected_slo_ids[i] \notin set(ctx.skipped_slo_ids)}

Occurrences(s, x) == Cardinality({i \in DOMAIN s : s[i] = x})

\* n distinct SLOs, all emitted, are selected, none was skipped and only
\* advance_to_next_slo was called
AdvancingOverSelected ==
    /\ \A i, j \in DOMAIN phase_context.selected_slo_ids :
          phase_context.selected_slo_ids[i] = phase_context.selected_slo_ids[j] => i = j
    /\ set(phase_context.selected_slo_ids) \subseteq set(phase_context.slos)
    /\ \A i \in DOMAIN tl_results : tl_results[i].tool = "advance_to_next_slo"

C31_AdvanceToNextSlo ==
    /\ [][AdvanceCalled =>
            LET current == get_current_slo(phase_context)
                returned == Last(tl_results').result = "Advanced to next SLO"
                open == OpenAfter(phase_context')
            IN /\ current # None =>
                    /\ current \in set(phase_context'.completed_slo_ids)
                    /\ Occurrences(phase_context'.completed_slo_ids, current)
                         <= IF Occurrences(phase_context.completed_slo_ids, current) = 0
                            THEN 1
                            ELSE Occurrences(phase_context.completed_slo_ids, current)
               /\ \A x \in SelectableIds \ {current} :
                    Occurrences(phase_context'.completed_slo_ids, x)
                        = Occurrences(phase_context.completed_slo_ids, x)
               /\ returned <=> open # {}
               /\ returned =>
                    /\ phase_context'.current_slo_index + 1 \in open
                    /\ \A i \in open : phase_context'.current_slo_index + 1 <= i
               /\ ~returned =>
                    phase_context'.current_slo_index = phase_context.current_slo_index
               /\ phase_context'.selected_slo_ids = phase_context.selected_slo_ids
               /\ phase_context'.skipped_slo_ids = phase_context.skipped_slo_ids]_vars
    /\ [](AdvancingOverSelected =>
            LET n == Len(phase_context.selected_slo_ids)
                k == Len(tl_results)
                done == IF k < n THEN k ELSE n
            IN /\ phase_context.completed_slo_ids
                    = SubSeq(phase_context.selected_slo_ids, 1, done)
               /\ phase_context.current_slo_index = (IF k < n THEN k ELSE n - 1)
               /\ \A i \in DOMAIN tl_results :
                    tl_results[i].result = (IF i < n THEN "Advanced to next SLO"
                                            ELSE "No more SLOs remaining"))

C31_Witness ==
    /\ AdvancingOverSelected
    /\ Len(phase_context.selected_slo_ids) >= 2
    /\ Len(tl_results) = Len(phase_context.selected_slo_ids) + 1
    /\ Last(tl_results).result = "No more SLOs remaining"
    /\ phase_context.completed_slo_ids = phase_context.selected_slo_ids

\* C32: the Build scaffold level is a saturating position on the ladder
\* none < light < medium < heavy: after any sequence of the Build tool calls
\* record_construction_round, set_scaffold_level and advance_to_next_slo the
\* level is one of the four values, and increase_scaffold / decrease_scaffold
\* never fail
C32_ScaffoldOnLadder ==
    mode = "build" =>
        /\ phase_context.current_scaffold_level \in {"none", "light", "medium", "heavy"}
        /\ \A i \in DOMAIN tl_results : tl_results[i].result # "ValueError"

\* C33: deleting a session is permanent: once delete_session has reported
\* deleted = true the session does not exist and stays absent, also when a
\* chat turn of that session was in flight at the deletion and finishes later
C33_DeleteIsPermanent == ch_deleted => ~ch_exists

\* C34: transition_to_making without force moves the session from grounding
\* to making exactly when the session is in build mode, its phase is
\* grounding and grounding is complete (grounding_ready is set or at least
\* MIN_GROUNDING_CONCEPTS concepts are sufficient); otherwise it returns
\* transitioned = false and leaves session.phase unchanged; with force = true
\* the session always ends in making
TransitionCalled == pm_result' # pm_result \/ pm_events' # pm_events

GroundingDone ==
    \/ pm_session.grounding_ready
    \/ Cardinality({i \in DOMAIN pm_session.grounding_concepts :
                       pm_session.grounding_concepts[i].sufficient}) >= 2

C34_TransitionToMaking ==
    [][TransitionCalled =>
        LET call == pm_result'[1]
            eligible == /\ pm_session.mode = "build"
                        /\ pm_session.phase = "grounding"
                        /\ GroundingDone
        IN /\ (~call.force /\ eligible) =>
                /\ call.result.transitioned
                /\ pm_session'.phase = "making"
           /\ (~call.force /\ ~eligible) =>
                /\ ~call.result.transitioned
                /\ pm_session'.phase = pm_session.phase
           /\ call.force => pm_session'.phase = "making"]_vars

C34_Witness ==
    /\ pm_result # <<>>
    /\ ~pm_result[1].force
    /\ pm_result[1].result.transitioned
    /\ pm_session.mode = "build"
    /\ pm_session.phase = "making"
    /\ ~pm_session.grounding_ready
    /\ Len(pm_events) = 1

\* C35: in every reachable state the transition history is a connected path
\* that ends at the current phase: with an empty history current_phase is the
\* initial phase; otherwise the first record leaves the initial phase, each
\* record's to_phase is the next record's from_phase, the last record's
\* to_phase is current_phase, and the (from_phase, to_phase, reason) of every
\* record is a declared transition
ConnectedPath(history) ==
    /\ history = <<>> => current_phase = initial_phase(mode)
    /\ history # <<>> =>
        /\ history[1].from_phase = value(mode, initial_phase(mode))
        /\ \A i \in 1..(Len(history) - 1) : history[i].to_phase = history[i + 1].from_phase
        /\ history[Len(history)].to_phase = value(mode, current_phase)
    /\ \A i \in DOMAIN history :
        \E t \in Declared(mode) :
            /\ value(mode, t.from_phase) = history[i].from_phase
            /\ value(mode, t.to_phase) = history[i].to_phase
            /\ t.condition = history[i].reason

C35_HistoryIsPath == Constructed => ConnectedPath(phase_context.transition_history)

\* C35 amended: the history is such a path ending at the current phase in
\* every state but those in which process_message is suspended at the yield
\* of phase.changed, or was abandoned there by an exception of its consumer;
\* in these the history without its last record is such a path, and the last
\* record is a declared transition that leaves current_phase
PathButLast(history) ==
    /\ history # <<>>
    /\ ConnectedPath(SubSeq(history, 1, Len(history) - 1))
    /\ Last(history).from_phase = value(mode, current_phase)
    /\ Last(history).to_phase # value(mode, current_phase)
    /\ \E t \in Declared(mode) :
            /\ value(mode, t.from_phase) = Last(history).from_phase
            /\ value(mode, t.to_phase) = Last(history).to_phase
            /\ t.condition = Last(history).reason

C35_HistoryIsPathOutsideYield ==
    Constructed =>
        CASE pc = "yield" -> PathButLast(phase_context.transition_history)
          [] pc \in {"failed", "errored"} ->
                \/ ConnectedPath(phase_context.transition_history)
                \/ PathButLast(phase_context.transition_history)
          [] OTHER -> ConnectedPath(phase_context.transition_history)

C35_Witness ==
    /\ pc = "loop"
    /\ Len(phase_context.transition_history) >= 3
    /\ Last(phase_context.transition_history).is_backward
    /\ Last(phase_context.transition_history).to_phase = value(mode, current_phase)
    /\ ConnectedPath(phase_context.transition_history)

(***************************************************************************)
(* C36: the end of a turn                                                  *)
(***************************************************************************)
TurnEnding(e) == e.type \in {"agent.complete", "agent.awaiting_input"}

CountOfType(seq, t) == Cardinality({i \in 1..Len(seq) : seq[i].type = t})

RecordsAppendedInTurn ==
    Len(phase_context.transition_history) - turn_start.history_len

\* C36: a turn that returned without an exception yielded exactly one
\* turn-ending event, as its last event: agent.complete iff the final phase is
\* the complete phase, otherwise awaiting_input for the final phase; and it
\* yielded as many phase.changed events as it appended transition records
C36_TurnEndsOnce ==
    pc = "done" =>
        /\ events # <<>>
        /\ Cardinality({i \in 1..Len(events) : TurnEnding(events[i])}) = 1
        /\ TurnEnding(events[Len(events)])
        /\ (events[Len(events)].type = "agent.complete")
                <=> (current_phase = complete_phase(mode))
        /\ (events[Len(events)].type = "agent.awaiting_input")
                => events[Len(events)].phase = value(mode, current_phase)
        /\ CountOfType(events, "phase.changed") = RecordsAppendedInTurn

\* a turn that took a transition and then stopped to wait for the user
C36_Witness ==
    /\ pc = "done"
    /\ CountOfType(events, "phase.changed") >= 1
    /\ RecordsAppendedInTurn >= 1
    /\ events[Len(events)].type = "agent.awaiting_input"

(***************************************************************************)
(* C37: events queued by tool handlers (SpecEmit)                          *)
(***************************************************************************)
TurnMarkers == {"phase.changed", "agent.awaiting_input", "agent.complete"}

\* the phase execution, counted from 0, in which the event numbered s was
\* produced; for a marker, the execution it follows
ExecutionOf(s) ==
    Cardinality({j \in 1..(s - 1) : em_produced[j].type = "phase.changed"})

DeliveredAt(s) == {i \in DOMAIN em_delivered : em_delivered[i].seq = s}

\* the executor that produced the event numbered s has returned and its
\* queue has been flushed
ExecutionFlushed(s) ==
    \/ em_pc \in {"evaluate", "ended"}
    \/ \E j \in DOMAIN em_produced : j > s /\ em_produced[j].type \in TurnMarkers

DeadReasons == {"synthesis_reveals_missing_category", "slo_skipped_needs_recalibration"}

HistoryReasons == {phase_context.transition_history[i].reason :
                      i \in DOMAIN phase_context.transition_history}

\* C38: RISE_ABOVE -> DECOMPOSE (synthesis_reveals_missing_category) and
\* DIAGNOSE -> CALIBRATE (slo_skipped_needs_recalibration) are never taken: no
\* transition record, pending reason or phase.changed event carries either
\* reason
C38_DeadBackwardTransitions ==
    /\ phase_context # NoContext => HistoryReasons \cap DeadReasons = {}
    /\ transition_reason \notin DeadReasons
    /\ \A i \in DOMAIN events :
          events[i].type = "phase.changed" => events[i].reason \notin DeadReasons

\* transitions have been evaluated in RISE_ABOVE and a backward transition
\* declared there was taken
C38_Witness ==
    /\ mode = "research"
    /\ phase_context # NoContext
    /\ \E i \in DOMAIN phase_context.transition_history :
          LET rec == phase_context.transition_history[i]
          IN /\ rec.from_phase = value("research", "RISE_ABOVE")
             /\ rec.is_backward

(***************************************************************************)
(* C39: completed and skipped SLOs of Understand (SpecSlo)                 *)
(***************************************************************************)
NoDuplicate(s) == \A i, j \in DOMAIN s : s[i] = s[j] => i = j

\* C39: in Understand, after any sequence of skip_current_slo and
\* advance_to_next_slo calls, completed_slo_ids and skipped_slo_ids are
\* disjoint and neither holds an id twice
C39_CompletedSkippedDisjoint ==
    mode = "understand" =>
        /\ set(phase_context.completed_slo_ids)
                \cap set(phase_context.skipped_slo_ids) = {}
        /\ NoDuplicate(phase_context.completed_slo_ids)
        /\ NoDuplicate(phase_context.skipped_slo_ids)

====
